---- MODULE Spec2Model ----
(***************************************************************************)
(* A model of the data-plane queues of ffplayer:                           *)
(*   - the packet queue (src/src/packet_queue.c): a mutex/condvar guarded  *)
(*     FIFO of compressed packets stamped with the queue's serial;         *)
(*   - the frame queue (src/src/ff_frame_queue.c): a ring of decoded       *)
(*     frames with one writer and one reader, whose blocking peeks consult *)
(*     the companion packet queue's aborted flag.                          *)
(* Every function that runs wholly under the queue's mutex is one atomic   *)
(* action; cnd_wait splits a call into the part before the wait and the    *)
(* part after the wake-up; code outside the mutex is a step of its own.    *)
(***************************************************************************)
EXTENDS Integers, Sequences, FiniteSets, TLC

(***************************************************************************)
(* Bounds of the model.                                                    *)
(***************************************************************************)
\* packets accepted by put / put_nullpacket in one run
MaxPuts == 3
\* start and flush are not taken once serial has reached this value
MaxSerial == 3
\* the most frames the codec gives for one packet
MaxBurst == 2
\* packets the read thread queues in one run of a stream
MaxPackets == 2
\* seeks the host asks for
MaxSeeks == 1
\* seconds av_gettime_relative advances by
MaxTime == 1
\* seeks asked for while the read thread's loop runs, restarts included
MaxRestarts == 2
\* packets av_read_frame gives in one run of the loop
MaxReads == 1
\* frames a frame queue holds in the loop's model
MaxFrames == 1

\* flushes of a packet queue the clocks see
MaxFlush == 1
\* the streams of a container
MaxStreams == 3

(***************************************************************************)
(* Program constants.                                                      *)
(***************************************************************************)
\* sizeof(packet_t): an AVPacket* and an int, padded, on an LP64 build
SizeofPacket == 16
\* AVERROR(ENOMEM)
ENOMEM == -12

\* threads that call ff_packet_queue_get
Getters == {"g1", "g2"}
\* the AVPacket values put by the demuxer: byte size and duration
Packets == {[size |-> 2, duration |-> 1]}
\* the packet ff_packet_queue_put_nullpacket enqueues: no payload
NullPacket == [size |-> 0, duration |-> 0]

VARIABLES
    pq,        \* struct ff_packet_queue
    gpc,       \* per getter thread: where it is in ff_packet_queue_get
    gret,      \* per getter thread: what its last ff_packet_queue_get returned
    nput,      \* number of packets accepted so far (the next packet's identity)
    accepted,  \* packets accepted since the last flush, in put order
    got,       \* packets returned by get since the last flush, in get order
    last,      \* the last packet queue operation and the fields it found
    fq,        \* struct ff_frame_queue, whose packet_queue is pq
    thread,    \* decoder->thread, the frame queue's writer: none, running, failed
    fpc,       \* where the writer and the reader are in their frame queue calls
    wret,      \* the slot the writer's last peek_writable returned, NULL as -1
    nnext,     \* calls of ff_frame_queue_next so far, counted up to 2
    pull,      \* TRUE: the reader is the audio pull; FALSE: the video refresh
    dec,       \* struct ff_decoder and where its thread is in ff_decoder_decode
    fstamp,    \* per slot of the frame queue: ff_frame_t.serial
    con,       \* the frame queue's consumer: where it is in its acquire call,
               \* the serial it found when called, whether it dropped a frame of
               \* another serial, and the frame it handed out
    cl,        \* struct ff_player's control fields: abort_request, seek_req,
               \* queue_attachments_req, paused, step, the external clock, the
               \* other stream's packet queue; where ff_player_close and the read
               \* thread are; what the last seek found and the frames shown since
    hist,      \* the last two frames queued, for the order of their serials
    clk,       \* the audio, video and external clocks with the serials their
               \* queue_serial pointers refer to, the time av_gettime_relative
               \* gives, and what the last change of speed found and left
    rd,        \* the read thread's loop over both streams: where it is, eof,
               \* seek_req, queue_attachments_req, paused, opts.loop, each
               \* stream's packet queue, decoder and frames_remaining, and what
               \* the current iteration has done
    cy,        \* the container's streams and programs, the stream indexes the
               \* player holds, and a call of ff_player_cycle_channel: its
               \* locals, where it is, and the streams it closed and opened
    sk,        \* seek_req, seek_pos, seek_rel and the byte flag of seek_flags,
               \* where the host thread and the read thread are in stream_seek
               \* and in the read thread's seek, with their locals, and the
               \* requests taken and applied so far
    tp         \* paused in the player and in its three clocks, step, where
               \* the host thread and the read thread are in
               \* stream_toggle_pause and its callers, with their locals, and
               \* the number of toggles completed

pqvars == <<gpc, gret, nput, accepted, got>>
fqvars == <<fq, thread, fpc, wret, nnext, pull>>
plvars == <<dec, fstamp, con, cl, hist, clk, rd, cy, sk, tp>>
vars == <<pq, gpc, gret, nput, accepted, got, last, fq, thread, fpc, wret, nnext, pull,
          dec, fstamp, con, cl, hist, clk, rd, cy, sk, tp>>

(***************************************************************************)
(* The packet queue's functions, as functions of the struct.               *)
(***************************************************************************)
ff_packet_queue_create ==
    [packets |-> <<>>, packet_count |-> 0, size |-> 0, duration |-> 0,
     aborted |-> TRUE, serial |-> 0]

\* mutant: the packet is stamped with the serial after the next increment
Mutant_put_stamps_next_serial(queue, av_packet, fifo_ok) ==
    IF queue.aborted THEN [queue |-> queue, ret |-> -1]
    ELSE IF ~fifo_ok THEN [queue |-> queue, ret |-> ENOMEM]
    ELSE [queue |-> [queue EXCEPT
                       !.packets = Append(@, [base |-> av_packet, serial |-> queue.serial + 1]),
                       !.packet_count = @ + 1,
                       !.size = @ + av_packet.size + SizeofPacket,
                       !.duration = @ + av_packet.duration],
          ret |-> 0]

\* mutant: the put does not look at aborted
Mutant_put_ignores_aborted(queue, av_packet, fifo_ok) ==
    IF ~fifo_ok THEN [queue |-> queue, ret |-> ENOMEM]
    ELSE [queue |-> [queue EXCEPT
                       !.packets = Append(@, [base |-> av_packet, serial |-> queue.serial]),
                       !.packet_count = @ + 1,
                       !.size = @ + av_packet.size + SizeofPacket,
                       !.duration = @ + av_packet.duration],
          ret |-> 0]

\* fifo_ok: whether av_fifo_write could grow the fifo
packet_queue_put_private(queue, av_packet, fifo_ok) ==
    IF queue.aborted THEN [queue |-> queue, ret |-> -1]
    ELSE IF ~fifo_ok THEN [queue |-> queue, ret |-> ENOMEM]
    ELSE [queue |-> [queue EXCEPT
                       !.packets = Append(@, [base |-> av_packet, serial |-> queue.serial]),
                       !.packet_count = @ + 1,
                       !.size = @ + av_packet.size + SizeofPacket,
                       !.duration = @ + av_packet.duration],
          ret |-> 0]

\* alloc_ok: whether av_packet_alloc succeeded
\* released: av_packet_unref(src) when the allocation fails, and
\* av_packet_free(&packet) when the put is refused
ff_packet_queue_put(queue, src, alloc_ok, fifo_ok) ==
    IF ~alloc_ok THEN [queue |-> queue, ret |-> ENOMEM, released |-> TRUE]
    ELSE LET r == packet_queue_put_private(queue, src, fifo_ok) IN
         [queue |-> r.queue, ret |-> r.ret, released |-> r.ret < 0]

ff_packet_queue_put_nullpacket(q, pkt, alloc_ok, fifo_ok) ==
    ff_packet_queue_put(q, pkt, alloc_ok, fifo_ok)

\* mutant: flush forgets serial++
Mutant_flush_keeps_serial(queue) ==
    [queue EXCEPT !.packets = <<>>,
                  !.packet_count = 0,
                  !.size = 0,
                  !.duration = 0]

\* mutant: flush forgets to zero duration
Mutant_flush_keeps_duration(queue) ==
    [queue EXCEPT !.packets = <<>>,
                  !.packet_count = 0,
                  !.size = 0,
                  !.serial = @ + 1]

ff_packet_queue_flush(queue) ==
    [queue EXCEPT !.packets = <<>>,
                  !.packet_count = 0,
                  !.size = 0,
                  !.duration = 0,
                  !.serial = @ + 1]

\* mutant: start forgets serial++
Mutant_start_keeps_serial(queue) ==
    [queue EXCEPT !.aborted = FALSE]

ff_packet_queue_start(queue) ==
    [queue EXCEPT !.aborted = FALSE, !.serial = @ + 1]

\* mutant: abort leaves the flag as it is
Mutant_abort_keeps_flag(queue) ==
    queue

ff_packet_queue_abort(queue) ==
    [queue EXCEPT !.aborted = TRUE]

NoPacket == [id |-> 0, size |-> 0, duration |-> 0]

\* mutant: get subtracts the packet's bytes without the per-entry overhead
Mutant_get_ignores_overhead(queue, block) ==
    IF queue.aborted
    THEN [queue |-> queue, wait |-> FALSE, ret |-> -1, pkt |-> NoPacket, serial |-> -1]
    ELSE IF queue.packets # <<>>
    THEN LET packet == Head(queue.packets) IN
         [queue |-> [queue EXCEPT
                       !.packets = Tail(@),
                       !.packet_count = @ - 1,
                       !.size = @ - packet.base.size,
                       !.duration = @ - packet.base.duration],
          wait |-> FALSE, ret |-> 1, pkt |-> packet.base, serial |-> packet.serial]
    ELSE IF block = 0
    THEN [queue |-> queue, wait |-> FALSE, ret |-> 0, pkt |-> NoPacket, serial |-> -1]
    ELSE [queue |-> queue, wait |-> TRUE, ret |-> 0, pkt |-> NoPacket, serial |-> -1]

\* mutant: get reports the queue's live serial, not the packet's stamp
Mutant_get_returns_live_serial(queue, block) ==
    IF queue.aborted
    THEN [queue |-> queue, wait |-> FALSE, ret |-> -1, pkt |-> NoPacket, serial |-> -1]
    ELSE IF queue.packets # <<>>
    THEN LET packet == Head(queue.packets) IN
         [queue |-> [queue EXCEPT
                       !.packets = Tail(@),
                       !.packet_count = @ - 1,
                       !.size = @ - (packet.base.size + SizeofPacket),
                       !.duration = @ - packet.base.duration],
          wait |-> FALSE, ret |-> 1, pkt |-> packet.base, serial |-> queue.serial]
    ELSE IF block = 0
    THEN [queue |-> queue, wait |-> FALSE, ret |-> 0, pkt |-> NoPacket, serial |-> -1]
    ELSE [queue |-> queue, wait |-> TRUE, ret |-> 0, pkt |-> NoPacket, serial |-> -1]

\* One iteration of the for (;;) loop of ff_packet_queue_get, under the mutex:
\* the queue it leaves, and either the value returned or wait = TRUE (cnd_wait).
ff_packet_queue_get(queue, block) ==
    IF queue.aborted
    THEN [queue |-> queue, wait |-> FALSE, ret |-> -1, pkt |-> NoPacket, serial |-> -1]
    ELSE IF queue.packets # <<>>
    THEN LET packet == Head(queue.packets) IN
         [queue |-> [queue EXCEPT
                       !.packets = Tail(@),
                       !.packet_count = @ - 1,
                       !.size = @ - (packet.base.size + SizeofPacket),
                       !.duration = @ - packet.base.duration],
          wait |-> FALSE, ret |-> 1, pkt |-> packet.base, serial |-> packet.serial]
    ELSE IF block = 0
    THEN [queue |-> queue, wait |-> FALSE, ret |-> 0, pkt |-> NoPacket, serial |-> -1]
    ELSE [queue |-> queue, wait |-> TRUE, ret |-> 0, pkt |-> NoPacket, serial |-> -1]

(***************************************************************************)
(* Condition variable of the packet queue.                                 *)
(***************************************************************************)
\* mutant: the signal wakes no thread
Mutant_signal_lost(pc) ==
    {pc}

\* cnd_signal(&queue->cond): one of the threads blocked in cnd_wait, if any,
\* is made runnable. The values pc may take after the call.
cnd_signal(pc) ==
    IF \E t \in DOMAIN pc : pc[t] = "wait"
    THEN {[pc EXCEPT ![t] = "ready"] : t \in {u \in DOMAIN pc : pc[u] = "wait"}}
    ELSE {pc}

\* ret, released: what the operation returned and whether it released the
\* packet it was given, for a put
Found(queue, op) ==
    [op |-> op, serial |-> queue.serial, packet_count |-> queue.packet_count,
     ret |-> 0, released |-> FALSE]

(***************************************************************************)
(* Actions of the packet queue.                                            *)
(***************************************************************************)
PQStart ==
    /\ pq.serial < MaxSerial
    /\ pq' = ff_packet_queue_start(pq)
    /\ last' = Found(pq, "start")
    /\ UNCHANGED <<gpc, gret, nput, accepted, got>>
    /\ UNCHANGED fqvars
    /\ UNCHANGED plvars

PQAbort ==
    /\ pq' = ff_packet_queue_abort(pq)
    /\ gpc' \in cnd_signal(gpc)
    /\ last' = Found(pq, "abort")
    /\ UNCHANGED <<gret, nput, accepted, got>>
    /\ UNCHANGED fqvars
    /\ UNCHANGED plvars

PQFlush ==
    /\ pq.serial < MaxSerial
    /\ pq' = ff_packet_queue_flush(pq)
    /\ accepted' = <<>>
    /\ got' = <<>>
    /\ last' = Found(pq, "flush")
    /\ UNCHANGED <<gpc, gret, nput>>
    /\ UNCHANGED fqvars
    /\ UNCHANGED plvars

\* The effect of a put that returned r on the rest of the state: an accepted
\* packet is logged with the serial the queue had, and one waiter is signalled.
PutDone(r, av_packet, op) ==
    /\ pq' = r.queue
    /\ last' = [Found(pq, op) EXCEPT !.ret = r.ret, !.released = r.released]
    /\ IF r.ret = 0
       THEN /\ nput' = nput + 1
            /\ accepted' = Append(accepted, [id |-> nput + 1, serial |-> pq.serial])
            /\ gpc' \in cnd_signal(gpc)
       ELSE UNCHANGED <<nput, accepted, gpc>>
    /\ UNCHANGED <<gret, got>>
    /\ UNCHANGED fqvars
    /\ UNCHANGED plvars

Tag(av_packet) == av_packet @@ [id |-> nput + 1]

PQPut ==
    /\ nput < MaxPuts
    /\ \E src \in Packets, alloc_ok \in BOOLEAN, fifo_ok \in BOOLEAN :
         PutDone(ff_packet_queue_put(pq, Tag(src), alloc_ok, fifo_ok), src, "put")

PQPutNull ==
    /\ nput < MaxPuts
    /\ \E alloc_ok \in BOOLEAN, fifo_ok \in BOOLEAN :
         PutDone(ff_packet_queue_put_nullpacket(pq, Tag(NullPacket), alloc_ok, fifo_ok),
                 NullPacket, "put_nullpacket")

\* Thread t runs the loop of ff_packet_queue_get once, holding the mutex.
GetLoop(t, block) ==
    LET r == ff_packet_queue_get(pq, block) IN
    /\ pq' = r.queue
    /\ last' = Found(pq, "get")
    /\ IF r.wait
       THEN /\ gpc' = [gpc EXCEPT ![t] = "wait"]
            /\ UNCHANGED <<gret, got>>
       ELSE /\ gpc' = [gpc EXCEPT ![t] = "idle"]
            /\ gret' = [gret EXCEPT ![t] =
                          [ret |-> r.ret, aborted |-> pq.aborted]]
            /\ got' = IF r.ret = 1
                      THEN Append(got, [id |-> r.pkt.id, serial |-> r.serial])
                      ELSE got
    /\ UNCHANGED <<nput, accepted>>
    /\ UNCHANGED fqvars
    /\ UNCHANGED plvars

\* ff_packet_queue_get is called
PQGet ==
    \E t \in Getters, block \in {0, 1} :
       /\ gpc[t] = "idle"
       /\ GetLoop(t, block)

\* a thread woken from cnd_wait reacquires the mutex and loops
PQGetWoken ==
    \E t \in Getters :
       /\ gpc[t] = "ready"
       /\ GetLoop(t, 1)

\* cnd_wait may return without a signal
PQSpuriousWake ==
    \E t \in Getters :
       /\ gpc[t] = "wait"
       /\ gpc' = [gpc EXCEPT ![t] = "ready"]
       /\ UNCHANGED <<pq, gret, nput, accepted, got, last>>
       /\ UNCHANGED fqvars
       /\ UNCHANGED plvars
    /\ UNCHANGED plvars


(***************************************************************************)
(* The frame queue's functions, as functions of the struct.                *)
(***************************************************************************)
FF_VIDEO_PICTURE_QUEUE_SIZE == 3
FF_SAMPLE_QUEUE_SIZE == 9
FF_SUBPICTURE_QUEUE_SIZE == 16

FFMAX(a, b) == IF a > b THEN a ELSE b
FFMIN(a, b) == IF a > b THEN b ELSE a

FF_FRAME_QUEUE_SIZE ==
    FFMAX(FF_SAMPLE_QUEUE_SIZE, FFMAX(FF_VIDEO_PICTURE_QUEUE_SIZE, FF_SUBPICTURE_QUEUE_SIZE))

\* a null ff_frame_t*
NULL == -1

\* frames[i] is TRUE while frames[i].base holds a decoded frame
ff_frame_queue_create(max_size, keep_last) ==
    [frames |-> [i \in 0 .. (FFMIN(max_size, FF_FRAME_QUEUE_SIZE) - 1) |-> FALSE],
     rindex |-> 0, windex |-> 0, size |-> 0,
     max_size |-> FFMIN(max_size, FF_FRAME_QUEUE_SIZE),
     keep_last |-> keep_last, rindex_shown |-> 0]

ff_packet_queue_get_aborted(queue) == queue.aborted

ff_packet_queue_get_serial(queue) == queue.serial

\* mutant: the writer waits only once size has passed max_size
Mutant_peek_writable_wait_off_by_one(queue, packet_queue) ==
    queue.size > queue.max_size /\ ~ff_packet_queue_get_aborted(packet_queue)

\* the condition of the while loop of ff_frame_queue_peek_writable
ff_frame_queue_peek_writable_wait(queue, packet_queue) ==
    queue.size >= queue.max_size /\ ~ff_packet_queue_get_aborted(packet_queue)

\* what ff_frame_queue_peek_writable returns once it has left the loop and
\* released the mutex: the index of the slot, or NULL
ff_frame_queue_peek_writable(queue, packet_queue) ==
    IF ff_packet_queue_get_aborted(packet_queue) THEN NULL ELSE queue.windex

\* the condition of the while loop of ff_frame_queue_peek_readable
ff_frame_queue_peek_readable_wait(queue, packet_queue) ==
    queue.size - queue.rindex_shown <= 0 /\ ~ff_packet_queue_get_aborted(packet_queue)

ff_frame_queue_peek_readable(queue, packet_queue) ==
    IF ff_packet_queue_get_aborted(packet_queue) THEN NULL
    ELSE (queue.rindex + queue.rindex_shown) % queue.max_size

\* ff_frame_queue_push, before it takes the mutex
ff_frame_queue_push_windex(queue) ==
    [queue EXCEPT !.windex = IF @ + 1 = queue.max_size THEN 0 ELSE @ + 1]

\* ff_frame_queue_push, under the mutex
ff_frame_queue_push_size(queue) ==
    [queue EXCEPT !.size = @ + 1]

\* mutant: with keep_last, next never advances
Mutant_next_keeps_always(queue) ==
    queue.keep_last

\* whether ff_frame_queue_next only marks the frame at rindex as shown
ff_frame_queue_next_keeps(queue) ==
    queue.keep_last /\ queue.rindex_shown = 0

\* ff_frame_queue_next, before it takes the mutex
ff_frame_queue_next_rindex(queue) ==
    IF ff_frame_queue_next_keeps(queue)
    THEN [queue EXCEPT !.rindex_shown = 1]
    ELSE [queue EXCEPT !.frames[queue.rindex] = FALSE,
                       !.rindex = IF @ + 1 = queue.max_size THEN 0 ELSE @ + 1]

\* ff_frame_queue_next, under the mutex
ff_frame_queue_next_size(queue) ==
    [queue EXCEPT !.size = @ - 1]

ff_frame_queue_get_frames_remaining(queue) ==
    queue.size - queue.rindex_shown

(***************************************************************************)
(* Actions of the frame queue's writer: the decoder thread, which calls    *)
(* peek_writable, fills the slot and calls push (queue_picture,            *)
(* audio_thread).                                                          *)
(***************************************************************************)
PeekWritableLoop ==
    /\ fpc' = [fpc EXCEPT !["writer"] =
                 IF ff_frame_queue_peek_writable_wait(fq, pq) THEN "wait" ELSE "check"]
    /\ UNCHANGED <<pq, last, fq, thread, wret, nnext, pull>>
    /\ UNCHANGED pqvars
    /\ UNCHANGED plvars

FQPeekWritable ==
    /\ thread = "running"
    /\ fpc["writer"] = "idle"
    /\ PeekWritableLoop

FQPeekWritableWoken ==
    /\ fpc["writer"] = "ready"
    /\ PeekWritableLoop

FQPeekWritableReturn ==
    /\ fpc["writer"] = "check"
    /\ wret' = ff_frame_queue_peek_writable(fq, pq)
    /\ fpc' = [fpc EXCEPT !["writer"] = IF wret' = NULL THEN "idle" ELSE "fill"]
    /\ UNCHANGED <<pq, last, fq, thread, nnext, pull>>
    /\ UNCHANGED pqvars
    /\ UNCHANGED plvars

\* av_frame_move_ref(frame->base, src_frame) into the slot returned
FQFill ==
    /\ fpc["writer"] = "fill"
    /\ fq' = [fq EXCEPT !.frames[wret] = TRUE]
    /\ fpc' = [fpc EXCEPT !["writer"] = "push"]
    /\ UNCHANGED <<pq, last, thread, wret, nnext, pull>>
    /\ UNCHANGED pqvars
    /\ UNCHANGED plvars

FQPushWindex ==
    /\ fpc["writer"] = "push"
    /\ fq' = ff_frame_queue_push_windex(fq)
    /\ fpc' = [fpc EXCEPT !["writer"] = "push_size"]
    /\ UNCHANGED <<pq, last, thread, wret, nnext, pull>>
    /\ UNCHANGED pqvars
    /\ UNCHANGED plvars

FQPushSize ==
    /\ fpc["writer"] = "push_size"
    /\ fq' = ff_frame_queue_push_size(fq)
    /\ fpc' \in cnd_signal([fpc EXCEPT !["writer"] = "idle"])
    /\ UNCHANGED <<pq, last, thread, wret, nnext, pull>>
    /\ UNCHANGED pqvars
    /\ UNCHANGED plvars

(***************************************************************************)
(* Actions of the frame queue's reader: the video refresh, which calls     *)
(* next after finding frames_remaining != 0, and the audio pull, which     *)
(* calls next after a peek_readable that returned a frame.                 *)
(***************************************************************************)
FQFramesRemaining ==
    /\ ~pull
    /\ fpc["reader"] = "idle"
    /\ ff_frame_queue_get_frames_remaining(fq) # 0
    /\ fpc' = [fpc EXCEPT !["reader"] = "next"]
    /\ UNCHANGED <<pq, last, fq, thread, wret, nnext, pull>>
    /\ UNCHANGED pqvars
    /\ UNCHANGED plvars

PeekReadableLoop ==
    /\ fpc' = [fpc EXCEPT !["reader"] =
                 IF ff_frame_queue_peek_readable_wait(fq, pq) THEN "wait" ELSE "check"]
    /\ UNCHANGED <<pq, last, fq, thread, wret, nnext, pull>>
    /\ UNCHANGED pqvars
    /\ UNCHANGED plvars

FQPeekReadable ==
    /\ pull
    /\ fpc["reader"] = "idle"
    /\ PeekReadableLoop

FQPeekReadableWoken ==
    /\ fpc["reader"] = "ready"
    /\ PeekReadableLoop

FQPeekReadableReturn ==
    /\ fpc["reader"] = "check"
    /\ fpc' = [fpc EXCEPT !["reader"] =
                 IF ff_frame_queue_peek_readable(fq, pq) = NULL THEN "idle" ELSE "next"]
    /\ UNCHANGED <<pq, last, fq, thread, wret, nnext, pull>>
    /\ UNCHANGED pqvars
    /\ UNCHANGED plvars

FQNext ==
    /\ fpc["reader"] = "next"
    /\ fq' = ff_frame_queue_next_rindex(fq)
    /\ fpc' = [fpc EXCEPT !["reader"] =
                 IF ff_frame_queue_next_keeps(fq) THEN "idle" ELSE "next_size"]
    /\ nnext' = FFMIN(nnext + 1, 2)
    /\ UNCHANGED <<pq, last, thread, wret, pull>>
    /\ UNCHANGED pqvars
    /\ UNCHANGED plvars

FQNextSize ==
    /\ fpc["reader"] = "next_size"
    /\ fq' = ff_frame_queue_next_size(fq)
    /\ fpc' \in cnd_signal([fpc EXCEPT !["reader"] = "idle"])
    /\ UNCHANGED <<pq, last, thread, wret, nnext, pull>>
    /\ UNCHANGED pqvars
    /\ UNCHANGED plvars

\* ff_frame_queue_signal
FQSignal ==
    /\ fpc' \in cnd_signal(fpc)
    /\ UNCHANGED <<pq, last, fq, thread, wret, nnext, pull>>
    /\ UNCHANGED pqvars
    /\ UNCHANGED plvars

\* cnd_wait may return without a signal
FQSpuriousWake ==
    \E t \in DOMAIN fpc :
       /\ fpc[t] = "wait"
       /\ fpc' = [fpc EXCEPT ![t] = "ready"]
       /\ UNCHANGED <<pq, last, fq, thread, wret, nnext, pull>>
       /\ UNCHANGED pqvars
       /\ UNCHANGED plvars
    /\ UNCHANGED plvars

\* ff_decoder_start: the packet queue is started, then the decoder thread
\* is created; thrd_create may fail
DecoderStart ==
    /\ thread = "none"
    /\ pq' = ff_packet_queue_start(pq)
    /\ last' = Found(pq, "start")
    /\ \E created \in BOOLEAN : thread' = IF created THEN "running" ELSE "failed"
    /\ UNCHANGED <<fq, fpc, wret, nnext, pull>>
    /\ UNCHANGED pqvars
    /\ UNCHANGED plvars

(***************************************************************************)
(* Initial states: the queues as their create functions return them.       *)
(***************************************************************************)
NoReturn == [ret |-> 0, aborted |-> FALSE]

InitPQ ==
    /\ pq = ff_packet_queue_create
    /\ gpc = [t \in Getters |-> "idle"]
    /\ gret = [t \in Getters |-> NoReturn]
    /\ nput = 0
    /\ accepted = <<>>
    /\ got = <<>>
    /\ last = Found(ff_packet_queue_create, "create")

InitFQ(max_size, keep_last, reader_pulls) ==
    /\ fq = ff_frame_queue_create(max_size, keep_last)
    /\ pull = reader_pulls
    /\ thread = "none"
    /\ fpc = [t \in {"writer", "reader"} |-> "idle"]
    /\ wret = NULL
    /\ nnext = 0

\* frame_queues_init: the picture queue, read by ff_player_acquire_video_frame
InitPicture == InitFQ(FF_VIDEO_PICTURE_QUEUE_SIZE, TRUE, FALSE)

\* frame_queues_init: the sample queue, read by ff_player_acquire_audio_buf
InitSample == InitFQ(FF_SAMPLE_QUEUE_SIZE, TRUE, TRUE)

(***************************************************************************)
(* struct ff_clock with its numbers. Times and pts are in milliseconds,    *)
(* av_gettime_relative advances by whole seconds, speed is in thousandths, *)
(* so that ff_clock_get's product is exact. NAN stands for the NaN of a    *)
(* double: every sum or difference with it is NAN.                         *)
(***************************************************************************)
NAN == -1000000
TimeStep == 1000
SpeedOne == 1000
AV_NOSYNC_THRESHOLD == 10000
EXTERNAL_CLOCK_SPEED_MIN == 900
EXTERNAL_CLOCK_SPEED_MAX == 1010
EXTERNAL_CLOCK_SPEED_STEP == 1
EXTERNAL_CLOCK_MIN_FRAMES == 2
EXTERNAL_CLOCK_MAX_FRAMES == 10

isnan(x) == x = NAN
dadd(a, b) == IF isnan(a) \/ isnan(b) THEN NAN ELSE a + b
dsub(a, b) == IF isnan(a) \/ isnan(b) THEN NAN ELSE a - b
fabs(x) == IF isnan(x) THEN NAN ELSE IF x < 0 THEN -x ELSE x

\* mutant: pts_drift keeps its value
Mutant_set_at_keeps_drift(clock, pts, serial, time) ==
    [clock EXCEPT !.pts = pts,
                  !.last_updated = time,
                  !.serial = serial,
                  !.was_set = TRUE]

\* was_set is history: ff_clock_set_at has been called since ff_clock_init
ff_clock_set_at(clock, pts, serial, time) ==
    [clock EXCEPT !.pts = pts,
                  !.last_updated = time,
                  !.pts_drift = dsub(pts, time),
                  !.serial = serial,
                  !.was_set = TRUE]

\* ff_clock_init at the time av_gettime_relative gives: speed 1.0, not
\* paused, ff_clock_set(clock, NAN, -1)
ff_clock_init_at(time) ==
    [ff_clock_set_at([pts |-> NAN, pts_drift |-> NAN, last_updated |-> time,
                      speed |-> SpeedOne, serial |-> -1, paused |-> FALSE,
                      was_set |-> FALSE],
                     NAN, -1, time) EXCEPT !.was_set = FALSE]

\* ff_clock_get at the time av_gettime_relative gives; queue_serial is
\* *clock->queue_serial
ff_clock_get_at(clock, queue_serial, time) ==
    IF queue_serial # clock.serial THEN NAN
    ELSE IF clock.paused THEN clock.pts
    ELSE dsub(dadd(clock.pts_drift, time),
              ((time - clock.last_updated) * (SpeedOne - clock.speed)) \div SpeedOne)

\* mutant: the speed is changed without setting the clock to its value
Mutant_set_speed_no_anchor(clock, queue_serial, speed, time_get, time_set) ==
    [clock EXCEPT !.speed = speed]

\* ff_clock_set_speed: ff_clock_get reads the time first, ff_clock_set after
ff_clock_set_speed(clock, queue_serial, speed, time_get, time_set) ==
    [ff_clock_set_at(clock, ff_clock_get_at(clock, queue_serial, time_get),
                     clock.serial, time_set)
       EXCEPT !.speed = speed]

ff_clock_sync_to_slave(clock, queue_serial, slave, slave_queue_serial, no_sync_threshold, time) ==
    LET clock_val == ff_clock_get_at(clock, queue_serial, time)
        slave_clock == ff_clock_get_at(slave, slave_queue_serial, time)
    IN  IF /\ ~isnan(slave_clock)
           /\ \/ isnan(clock_val)
              \/ fabs(dsub(clock_val, slave_clock)) > no_sync_threshold
        THEN ff_clock_set_at(clock, slave_clock, slave.serial, time)
        ELSE clock

\* mutant: the speed is lowered without the floor
Mutant_check_speed_no_floor(speed, video_open, video_count, audio_open, audio_count) ==
    IF \/ video_open /\ video_count <= EXTERNAL_CLOCK_MIN_FRAMES
       \/ audio_open /\ audio_count <= EXTERNAL_CLOCK_MIN_FRAMES
    THEN speed - EXTERNAL_CLOCK_SPEED_STEP
    ELSE IF /\ ~video_open \/ video_count > EXTERNAL_CLOCK_MAX_FRAMES
            /\ ~audio_open \/ audio_count > EXTERNAL_CLOCK_MAX_FRAMES
    THEN FFMIN(EXTERNAL_CLOCK_SPEED_MAX, speed + EXTERNAL_CLOCK_SPEED_STEP)
    ELSE IF speed # SpeedOne
    THEN speed + (EXTERNAL_CLOCK_SPEED_STEP * (SpeedOne - speed)) \div fabs(SpeedOne - speed)
    ELSE speed

\* mutant: a stream with exactly EXTERNAL_CLOCK_MIN_FRAMES packets does not
\* slow the clock
Mutant_check_speed_below_min(speed, video_open, video_count, audio_open, audio_count) ==
    IF \/ video_open /\ video_count < EXTERNAL_CLOCK_MIN_FRAMES
       \/ audio_open /\ audio_count < EXTERNAL_CLOCK_MIN_FRAMES
    THEN FFMAX(EXTERNAL_CLOCK_SPEED_MIN, speed - EXTERNAL_CLOCK_SPEED_STEP)
    ELSE IF /\ ~video_open \/ video_count > EXTERNAL_CLOCK_MAX_FRAMES
            /\ ~audio_open \/ audio_count > EXTERNAL_CLOCK_MAX_FRAMES
    THEN FFMIN(EXTERNAL_CLOCK_SPEED_MAX, speed + EXTERNAL_CLOCK_SPEED_STEP)
    ELSE IF speed # SpeedOne
    THEN speed + (EXTERNAL_CLOCK_SPEED_STEP * (SpeedOne - speed)) \div fabs(SpeedOne - speed)
    ELSE speed

\* check_external_clock_speed: the speed it gives ff_clock_set_speed, or the
\* speed as it is where it does not call it
check_external_clock_speed(speed, video_open, video_count, audio_open, audio_count) ==
    IF \/ video_open /\ video_count <= EXTERNAL_CLOCK_MIN_FRAMES
       \/ audio_open /\ audio_count <= EXTERNAL_CLOCK_MIN_FRAMES
    THEN FFMAX(EXTERNAL_CLOCK_SPEED_MIN, speed - EXTERNAL_CLOCK_SPEED_STEP)
    ELSE IF /\ ~video_open \/ video_count > EXTERNAL_CLOCK_MAX_FRAMES
            /\ ~audio_open \/ audio_count > EXTERNAL_CLOCK_MAX_FRAMES
    THEN FFMIN(EXTERNAL_CLOCK_SPEED_MAX, speed + EXTERNAL_CLOCK_SPEED_STEP)
    ELSE IF speed # SpeedOne
    THEN speed + (EXTERNAL_CLOCK_SPEED_STEP * (SpeedOne - speed)) \div fabs(SpeedOne - speed)
    ELSE speed

\* no change of speed yet
NoSpeedChange == [before |-> NAN, after |-> NAN, same_instant |-> FALSE, calls |-> 0]

\* no call of check_external_clock_speed yet
NoCheck == [video_open |-> FALSE, video_count |-> 0, audio_open |-> FALSE,
            audio_count |-> 0, speed |-> SpeedOne, calls |-> 0]

\* the clocks after ff_player_open: ff_clock_init on each, the packet
\* queues' serials as ff_packet_queue_create leaves them
InitClocks ==
    clk = [audio |-> ff_clock_init_at(0),
           video |-> ff_clock_init_at(0),
           external |-> ff_clock_init_at(0),
           queue_serial |-> [audio |-> 0, video |-> 0],
           time |-> 0,
           paused |-> FALSE,
           set_speed |-> NoSpeedChange,
           check |-> NoCheck]

(***************************************************************************)
(* The read thread's loop (read_thread, ff_player.c:1282-1387) over the    *)
(* audio and the video stream.                                             *)
(***************************************************************************)
MAX_QUEUE_SIZE == 15 * 1024 * 1024
MIN_FRAMES == 10
AVERROR_EOF == -541478725
\* AVERROR(EIO), a value of format_context->pb->error
EIO == -5
\* the denominator of the streams' time_base, 1/1000
TimeBaseDen == 1000

Streams == {"audio", "video"}

\* a packet as the demuxer gives it
Packet == [size |-> 2, duration |-> 1]
\* a packet that alone exceeds MAX_QUEUE_SIZE
HugePacket == [size |-> MAX_QUEUE_SIZE, duration |-> 1]
\* a packet of a tenth of a second
LongPacket == [size |-> 2, duration |-> 100]
\* a packet of unknown duration
PlainPacket == [size |-> 2, duration |-> 0]

\* nothing done yet in this iteration of the loop: full is the outcome of
\* the backpressure test, read whether av_read_frame was called, put the
\* packets queued, attached those of them queued for the attached picture
NoIteration == [full |-> FALSE, read |-> FALSE, put |-> 0, attached |-> 0,
                complete |-> FALSE]

\* no null packet put since eof was cleared
NoNulls == [audio |-> 0, video |-> 0, lost |-> FALSE, eof_reads |-> 0]

RECURSIVE Filled(_, _, _)
\* a started queue after n puts of the packet
Filled(queue, n, packet) ==
    IF n = 0 THEN queue
    ELSE Filled(ff_packet_queue_put(queue, packet, TRUE, TRUE).queue, n - 1, packet)

\* a stream after stream_open, or one that was not opened, with its decoder
\* (packet_serial, finished) and its frame queue's frames_remaining
StreamAt(open, fill, packet) ==
    [open |-> open,
     queue |-> IF open THEN Filled(ff_packet_queue_start(ff_packet_queue_create), fill, packet)
               ELSE ff_packet_queue_create,
     packet_serial |-> -1, finished |-> 0, frames |-> 0]

\* the read thread at the top of its loop
ReaderAt(loop, audio_open, video_open, attached_pic, fill, packet) ==
    [pc |-> "seek", ret |-> 0, eof |-> FALSE, seek_req |-> FALSE,
     queue_attachments_req |-> video_open, paused |-> FALSE, loop |-> loop,
     audio |-> StreamAt(audio_open, fill, packet),
     video |-> StreamAt(video_open, IF attached_pic THEN 0 ELSE fill, packet),
     attached_pic |-> attached_pic,
     nseek |-> 0, nread |-> 0, iter |-> NoIteration, nulls |-> NoNulls,
     applied |-> "none", restarts |-> 0]

\* stream_has_enough_packets
stream_has_enough_packets(stream, attached_pic) ==
    \/ ~stream.open
    \/ ff_packet_queue_get_aborted(stream.queue)
    \/ attached_pic
    \/ /\ stream.queue.packet_count > MIN_FRAMES
       /\ \/ stream.queue.duration = 0
          \/ stream.queue.duration > TimeBaseDen

\* the test of lines 1329-1331
QueuesFull(r) ==
    \/ r.audio.queue.size + r.video.queue.size > MAX_QUEUE_SIZE
    \/ /\ stream_has_enough_packets(r.audio, FALSE)
       /\ stream_has_enough_packets(r.video, r.attached_pic)

\* mutant: a stream counts as played once its decoder has reported the end
Mutant_done_ignores_frames(stream) ==
    \/ ~stream.open
    \/ stream.finished = ff_packet_queue_get_serial(stream.queue)

\* one half of the test of lines 1339-1341
StreamDone(stream) ==
    \/ ~stream.open
    \/ /\ stream.finished = ff_packet_queue_get_serial(stream.queue)
       /\ stream.frames = 0

\* the test of lines 1339-1341
PlaybackComplete(r) ==
    /\ ~r.paused
    /\ StreamDone(r.audio)
    /\ StreamDone(r.video)

\* the next iteration of the loop begins
Continue(r) == [r EXCEPT !.pc = "seek", !.iter = NoIteration]

\* ff_packet_queue_put or put_nullpacket on a stream's queue; the result is
\* not looked at
StreamPut(stream, packet, alloc_ok) ==
    [stream EXCEPT !.queue = ff_packet_queue_put(@, packet, alloc_ok, TRUE).queue]

\* the number of packets the put added
Added(stream, alloc_ok) ==
    IF alloc_ok /\ ~ff_packet_queue_get_aborted(stream.queue) THEN 1 ELSE 0

\* no frame has been queued yet
NoFrame == [serial |-> -1, exit |-> -1]

\* the consumer's call handed out no frame
NoHandout == [serial |-> -1, live |-> -1, slot |-> -1]

\* a container with one video and one audio stream, both open, and no
\* program; ff_player_cycle_channel has not been called
NoCycle ==
    [pc |-> "idle", streams |-> <<"video", "audio">>, program |-> <<>>,
     has_program |-> FALSE,
     video_stream_index |-> 0, audio_stream_index |-> 1,
     last_video_stream_index |-> 0, last_audio_stream_index |-> 1,
     media_type |-> "none", start_index |-> -1, old_index |-> -1,
     stream_index |-> -1, stream_count |-> 0, in_program |-> FALSE,
     matched |-> <<>>,
     closed |-> -1, opened |-> -1]

\* a thread outside stream_seek and outside the read thread's seek
NoSeekCall == [pc |-> "idle", pos |-> 0, rel |-> 0, by_bytes |-> FALSE]

\* ff_player_open: no seek requested; seek_pos, seek_rel and seek_flags are
\* zero
NoRequest ==
    [seek_req |-> FALSE, seek_pos |-> 0, seek_rel |-> 0, seek_by_bytes |-> FALSE,
     loop |-> FALSE,
     host |-> NoSeekCall, reader |-> NoSeekCall,
     calls |-> 0, taken |-> <<>>, applied |-> <<>>]

\* a thread outside stream_toggle_pause and its callers
NoToggleCall == [pc |-> "idle", op |-> "none", value |-> FALSE, left |-> {}]

\* ff_player_open: not paused, no step
NoToggle ==
    [paused |-> FALSE, audio |-> FALSE, video |-> FALSE, external |-> FALSE,
     step |-> FALSE,
     host |-> NoToggleCall, reader |-> NoToggleCall,
     calls |-> 0, toggles |-> 0]

\* ff_player_acquire_video_frame has not been called yet
NoEntry == [made |-> FALSE, paused |-> FALSE, force_refresh |-> FALSE]

\* ff_clock_init: ff_clock_set(clock, NAN, -1), not paused
ff_clock_init == [pts |-> "nan", serial |-> -1, paused |-> FALSE]

\* no seek applied yet
NoSeek == [ok |-> FALSE, audio |-> -1, video |-> -1, clock |-> ff_clock_init]

\* ff_decoder_create, the player's fields after ff_player_open for a player
\* whose get_master_sync_type gives master, and the consumer before its
\* first call
InitControlOf(master) ==
    /\ dec = [pc |-> "top", packet_serial |-> -1, codec |-> 0, eof |-> FALSE,
              pkt |-> "none", packet_pending |-> FALSE, finished |-> 0, exit |-> -1,
              next_pts |-> "zero"]
    /\ fstamp = [i \in DOMAIN fq.frames |-> 0]
    /\ con = [pc |-> "idle", frame |-> NULL, force_refresh |-> FALSE,
              audio_clock_serial |-> -1, called |-> -1, dropped |-> FALSE,
              ret |-> NoHandout, entry |-> NoEntry, checked |-> FALSE,
              timer_set |-> FALSE, synced |-> FALSE, advanced |-> 0]
    /\ cl = [pc |-> "idle", abort_request |-> FALSE, read_thread |-> "open",
             found |-> -1,
             rpc |-> "loop", seek_req |-> FALSE, seek_bytes |-> FALSE,
             queue_attachments_req |-> FALSE, paused |-> FALSE, step |-> FALSE,
             external_clock |-> ff_clock_init,
             other |-> ff_packet_queue_create, other_open |-> FALSE,
             nseek |-> 0, seek |-> NoSeek, stepping |-> FALSE, shown |-> <<>>,
             stepped |-> -1, master |-> master]
    /\ hist = [prev |-> NoFrame, cur |-> NoFrame]
    /\ InitClocks

\* the same with the external clock as master
InitControl == InitControlOf("external")

\* with the read thread's loop as it starts for a file with both streams
InitPL ==
    /\ InitControl
    /\ rd = ReaderAt(FALSE, TRUE, TRUE, FALSE, 0, Packet)
    /\ cy = NoCycle
    /\ sk = NoRequest
    /\ tp = NoToggle

Init ==
    /\ InitPQ
    /\ InitPicture
    /\ InitPL

InitPlayer ==
    /\ InitPQ
    /\ InitPicture \/ InitSample
    /\ InitPL

\* a frame queue of the picture queue's size, with or without keep_last,
\* read in either of the two ways
InitAny ==
    /\ InitPQ
    /\ \E keep_last \in BOOLEAN, reader_pulls \in BOOLEAN :
          InitFQ(FF_VIDEO_PICTURE_QUEUE_SIZE, keep_last, reader_pulls)
    /\ InitPL

(***************************************************************************)
(* The packet queue under any sequence of calls from its producer, its     *)
(* consumers and the threads that start, flush and abort it.               *)
(***************************************************************************)
Next ==
    \/ PQStart
    \/ PQAbort
    \/ PQFlush
    \/ PQPut
    \/ PQPutNull
    \/ PQGet
    \/ PQGetWoken
    \/ PQSpuriousWake

Spec == Init /\ [][Next]_vars

(***************************************************************************)
(* The frame queue as the player drives it: its packet queue is started    *)
(* once, by ff_decoder_start, before the writer thread exists.             *)
(***************************************************************************)
NextFQPlayer ==
    \/ DecoderStart
    \/ PQAbort
    \/ FQSignal
    \/ FQSpuriousWake
    \/ FQPeekWritable
    \/ FQPeekWritableWoken
    \/ FQPeekWritableReturn
    \/ FQFill
    \/ FQPushWindex
    \/ FQPushSize
    \/ FQFramesRemaining
    \/ FQPeekReadable
    \/ FQPeekReadableWoken
    \/ FQPeekReadableReturn
    \/ FQNext
    \/ FQNextSize

SpecFQPlayer == InitPlayer /\ [][NextFQPlayer]_vars

(***************************************************************************)
(* The frame queue when ff_packet_queue_start may also be called again at  *)
(* any time, as the packet queue's interface allows.                       *)
(***************************************************************************)
NextFQ ==
    \/ NextFQPlayer
    \/ PQStart

SpecFQ == InitAny /\ [][NextFQ]_vars

(***************************************************************************)
(* One stream of the player: the read thread fills the packet queue and    *)
(* flushes it on a seek, the decoder thread turns packets into frames      *)
(* stamped with its packet_serial and queues them, the consumer takes them *)
(* out, and ff_player_close stops the threads.                             *)
(***************************************************************************)
\* ff_clock_get of the external clock, whose queue_serial is its own serial:
\* the pts while paused, a running value otherwise
ff_clock_get(clock) ==
    IF clock.pts = "nan" THEN "nan"
    ELSE IF clock.paused THEN clock.pts
    ELSE "running"

\* mutant: the clock keeps the serial it had
Mutant_clock_set_keeps_serial(clock, pts, serial) ==
    [clock EXCEPT !.pts = pts]

ff_clock_set(clock, pts, serial) ==
    [clock EXCEPT !.pts = pts, !.serial = serial]

\* stream_toggle_pause: the external clock is set to its own value and
\* paused is inverted, in the player and in the clock
stream_toggle_pause(player) ==
    [player EXCEPT
       !.external_clock =
           [ff_clock_set(@, ff_clock_get(@), @.serial) EXCEPT !.paused = ~player.paused],
       !.paused = ~player.paused]

\* the packet queues by media type: pq is the stream's own queue, the audio
\* one where the reader pulls samples, and other is the other stream's
audio_packet_queue == IF pull THEN pq ELSE cl.other
video_packet_queue == IF pull THEN cl.other ELSE pq
audio_stream_open == IF pull THEN thread = "running" ELSE cl.other_open
video_stream_open == IF pull THEN cl.other_open ELSE thread = "running"

\* the decoder thread returns from video_thread / audio_thread
Exit(d) == [d EXCEPT !.pc = "exit"]

\* cnd_signal(&queue->cond) of the packet queue, whose only waiter here is
\* the decoder thread
SignalDecoder(d) == IF d.pc = "get_wait" THEN [d EXCEPT !.pc = "get_ready"] ELSE d

\* read_thread: stream_open -> ff_decoder_start; a failed thrd_create leaves
\* the stream closed, and the read thread gives up
ROpen ==
    /\ cl.read_thread = "open"
    /\ thread = "none"
    /\ pq' = ff_packet_queue_start(pq)
    /\ \E created \in BOOLEAN :
         /\ thread' = IF created THEN "running" ELSE "failed"
         /\ cl' = [cl EXCEPT !.read_thread = IF created THEN "run" ELSE "exited"]
    /\ UNCHANGED <<last, fq, fpc, wret, nnext, pull, dec, fstamp, con, hist, clk, rd, cy, sk, tp>>
    /\ UNCHANGED pqvars

\* read_thread puts the packet av_read_frame returned
RPutDone(r) ==
    /\ pq' = r.queue
    /\ IF r.ret = 0
       THEN /\ nput' = nput + 1
            /\ dec' = SignalDecoder(dec)
       ELSE UNCHANGED <<nput, dec>>
    /\ UNCHANGED <<gpc, gret, accepted, got, last, fstamp, con, cl, hist, clk, rd, cy, sk, tp>>
    /\ UNCHANGED fqvars

RPut ==
    /\ cl.read_thread = "run"
    /\ cl.rpc = "loop"
    /\ nput < MaxPackets
    /\ \E src \in Packets, alloc_ok \in BOOLEAN, fifo_ok \in BOOLEAN :
         RPutDone(ff_packet_queue_put(pq, Tag(src), alloc_ok, fifo_ok))

\* read_thread at end of file
RPutNull ==
    /\ cl.read_thread = "run"
    /\ cl.rpc = "loop"
    /\ nput < MaxPackets
    /\ \E alloc_ok \in BOOLEAN, fifo_ok \in BOOLEAN :
         RPutDone(ff_packet_queue_put_nullpacket(pq, Tag(NullPacket), alloc_ok, fifo_ok))

\* read_thread applies a seek that avformat_seek_file accepted
RSeek ==
    /\ cl.read_thread = "run"
    /\ cl.rpc = "loop"
    /\ pq.serial < MaxSerial
    /\ pq' = ff_packet_queue_flush(pq)
    /\ UNCHANGED <<last, dec, fstamp, con, cl, hist, clk, rd, cy, sk, tp>>
    /\ UNCHANGED pqvars
    /\ UNCHANGED fqvars

\* read_thread finds abort_request set at the top of its loop
RAbortSeen ==
    /\ cl.read_thread = "run"
    /\ cl.rpc = "loop"
    /\ cl.abort_request
    /\ cl' = [cl EXCEPT !.read_thread = "exited"]
    /\ UNCHANGED <<pq, last, dec, fstamp, con, hist, clk, rd, cy, sk, tp>>
    /\ UNCHANGED pqvars
    /\ UNCHANGED fqvars

\* read_thread breaks out of its loop: end of file without loop, I/O error
RBreak ==
    /\ cl.read_thread = "run"
    /\ cl.rpc = "loop"
    /\ ~cl.abort_request
    /\ cl' = [cl EXCEPT !.read_thread = "exited"]
    /\ UNCHANGED <<pq, last, dec, fstamp, con, hist, clk, rd, cy, sk, tp>>
    /\ UNCHANGED pqvars
    /\ UNCHANGED fqvars

\* ff_decoder_decode, line 85
DTop ==
    /\ thread = "running"
    /\ dec.pc = "top"
    /\ dec' = [dec EXCEPT !.pc = IF ff_packet_queue_get_serial(pq) = dec.packet_serial
                                 THEN "recv" ELSE "need"]
    /\ UNCHANGED <<pq, last, fstamp, con, cl, hist, clk, rd, cy, sk, tp>>
    /\ UNCHANGED pqvars
    /\ UNCHANGED fqvars

\* mutant: the end of the stream is returned without finished being set
Mutant_recv_eof_keeps_finished ==
    /\ dec.pc = "recv"
    /\ dec' = IF ff_packet_queue_get_aborted(pq) THEN Exit(dec)
              ELSE IF dec.codec > 0
              THEN [dec EXCEPT !.pc = "out", !.codec = @ - 1,
                               !.exit = ff_packet_queue_get_serial(pq)]
              ELSE IF dec.eof
              THEN [dec EXCEPT !.pc = "top", !.eof = FALSE]
              ELSE [dec EXCEPT !.pc = "need"]
    /\ UNCHANGED <<pq, last, fstamp, con, cl, hist, clk, rd, cy, sk, tp>>
    /\ UNCHANGED pqvars
    /\ UNCHANGED fqvars

\* ff_decoder_decode, lines 87-127: avcodec_receive_frame gives a frame
\* (return 1; exit records the packet queue's serial at that moment; an
\* audio frame moves next_pts to its end), reports the end of the stream
\* (return 0) or wants a packet
DRecv ==
    /\ dec.pc = "recv"
    /\ dec' = IF ff_packet_queue_get_aborted(pq) THEN Exit(dec)
              ELSE IF dec.codec > 0
              THEN [dec EXCEPT !.pc = "out", !.codec = @ - 1,
                               !.exit = ff_packet_queue_get_serial(pq),
                               !.next_pts = IF pull THEN "frame" ELSE @]
              ELSE IF dec.eof
              THEN [dec EXCEPT !.pc = "top", !.eof = FALSE,
                               !.finished = dec.packet_serial]
              ELSE [dec EXCEPT !.pc = "need"]
    /\ UNCHANGED <<pq, last, fstamp, con, cl, hist, clk, rd, cy, sk, tp>>
    /\ UNCHANGED pqvars
    /\ UNCHANGED fqvars

\* ff_decoder_decode, lines 131-137
DNeed ==
    /\ dec.pc = "need"
    /\ dec' = IF dec.packet_pending
              THEN [dec EXCEPT !.packet_pending = FALSE, !.pc = "chk"]
              ELSE [dec EXCEPT !.pc = "get"]
    /\ UNCHANGED <<pq, last, fstamp, con, cl, hist, clk, rd, cy, sk, tp>>
    /\ UNCHANGED pqvars
    /\ UNCHANGED fqvars

\* mutant: a packet of another serial leaves finished and next_pts alone
Mutant_dequeued_keeps_finished(d, r) ==
    [d EXCEPT !.pc = "chk", !.packet_serial = r.serial,
              !.pkt = IF r.pkt.size = 0 THEN "null" ELSE "data",
              !.codec = IF r.serial # d.packet_serial THEN 0 ELSE @,
              !.eof = IF r.serial # d.packet_serial THEN FALSE ELSE @]

\* ff_decoder_decode, lines 138-147: the packet ff_packet_queue_get gave has
\* set packet_serial; when that is not the old one the codec is flushed,
\* finished is cleared and next_pts is start_pts again
Dequeued(d, r) ==
    IF r.serial # d.packet_serial
    THEN [d EXCEPT !.pc = "chk", !.packet_serial = r.serial,
                   !.pkt = IF r.pkt.size = 0 THEN "null" ELSE "data",
                   !.codec = 0, !.eof = FALSE, !.finished = 0,
                   !.next_pts = "start_pts"]
    ELSE [d EXCEPT !.pc = "chk",
                   !.pkt = IF r.pkt.size = 0 THEN "null" ELSE "data"]

\* ff_decoder_decode, lines 137-147: one pass of the loop of
\* ff_packet_queue_get(queue, packet, 1, &packet_serial)
DGet ==
    /\ dec.pc \in {"get", "get_ready"}
    /\ LET r == ff_packet_queue_get(pq, 1) IN
       /\ pq' = r.queue
       /\ dec' = IF r.wait THEN [dec EXCEPT !.pc = "get_wait"]
                 ELSE IF r.ret < 0 THEN Exit(dec)
                 ELSE Dequeued(dec, r)
    /\ UNCHANGED <<last, fstamp, con, cl, hist, clk, rd, cy, sk, tp>>
    /\ UNCHANGED pqvars
    /\ UNCHANGED fqvars

\* cnd_wait in ff_packet_queue_get may return without a signal
DSpuriousWake ==
    /\ dec.pc = "get_wait"
    /\ dec' = [dec EXCEPT !.pc = "get_ready"]
    /\ UNCHANGED <<pq, last, fstamp, con, cl, hist, clk, rd, cy, sk, tp>>
    /\ UNCHANGED pqvars
    /\ UNCHANGED fqvars

\* ff_decoder_decode, lines 148-151
DChk ==
    /\ dec.pc = "chk"
    /\ dec' = IF ff_packet_queue_get_serial(pq) = dec.packet_serial
              THEN [dec EXCEPT !.pc = "send"]
              ELSE [dec EXCEPT !.pc = "need", !.pkt = "none"]
    /\ UNCHANGED <<pq, last, fstamp, con, cl, hist, clk, rd, cy, sk, tp>>
    /\ UNCHANGED pqvars
    /\ UNCHANGED fqvars

\* ff_decoder_decode, lines 154-167: avcodec_send_packet, which answers
\* EAGAIN while the codec holds output; a packet gives up to MaxBurst
\* frames, the null packet drains the codec
DSend ==
    /\ dec.pc = "send"
    /\ \E alloc_ok \in BOOLEAN, produced \in 0 .. MaxBurst :
         dec' = IF dec.pkt = "data" /\ ~alloc_ok THEN Exit(dec)
                ELSE IF dec.codec > 0
                THEN [dec EXCEPT !.pc = "top", !.packet_pending = TRUE]
                ELSE IF dec.pkt = "null"
                THEN [dec EXCEPT !.pc = "top", !.pkt = "none", !.eof = TRUE]
                ELSE [dec EXCEPT !.pc = "top", !.pkt = "none", !.codec = produced]
    /\ UNCHANGED <<pq, last, fstamp, con, cl, hist, clk, rd, cy, sk, tp>>
    /\ UNCHANGED pqvars
    /\ UNCHANGED fqvars

\* get_video_frame drops a late frame, or the filter graph fails
DDrop ==
    /\ dec.pc = "out"
    /\ \E failed \in BOOLEAN :
         /\ failed \/ ~pull
         /\ dec' = IF failed THEN Exit(dec) ELSE [dec EXCEPT !.pc = "top"]
    /\ UNCHANGED <<pq, last, fstamp, con, cl, hist, clk, rd, cy, sk, tp>>
    /\ UNCHANGED pqvars
    /\ UNCHANGED fqvars

\* queue_picture / audio_thread call ff_frame_queue_peek_writable
DPeekWritable ==
    /\ dec.pc = "out"
    /\ fpc["writer"] = "idle"
    /\ dec' = [dec EXCEPT !.pc = "queue"]
    /\ fpc' = [fpc EXCEPT !["writer"] =
                 IF ff_frame_queue_peek_writable_wait(fq, pq) THEN "wait" ELSE "check"]
    /\ UNCHANGED <<pq, last, fq, thread, wret, nnext, pull, fstamp, con, cl, hist, clk, rd, cy, sk, tp>>
    /\ UNCHANGED pqvars

\* queue_picture lines 648-670, audio_thread lines 781-790: the slot is
\* stamped with the decoder's packet_serial and takes the frame; the video
\* meta_cb may refuse, and queue_picture then returns without a push
DFill ==
    /\ dec.pc = "queue"
    /\ fpc["writer"] = "fill"
    /\ LET stamp == [serial |-> dec.packet_serial, exit |-> dec.exit] IN
       \E cb_ok \in BOOLEAN :
         /\ cb_ok \/ ~pull
         /\ fstamp' = [fstamp EXCEPT ![wret] = dec.packet_serial]
         /\ IF cb_ok
            THEN /\ fq' = [fq EXCEPT !.frames[wret] = TRUE]
                 /\ fpc' = [fpc EXCEPT !["writer"] = "push"]
                 /\ hist' = [prev |-> hist.cur, cur |-> stamp]
                 /\ UNCHANGED dec
            ELSE /\ fpc' = [fpc EXCEPT !["writer"] = "idle"]
                 /\ dec' = Exit(dec)
                 /\ UNCHANGED <<fq, hist>>
    /\ UNCHANGED <<pq, last, thread, wret, nnext, pull, con, cl, clk, rd, cy, sk, tp>>
    /\ UNCHANGED pqvars

\* queue_picture has returned: -1 ends the thread, 0 sends it back to decode
DQueued ==
    /\ dec.pc = "queue"
    /\ fpc["writer"] = "idle"
    /\ dec' = IF wret = NULL THEN Exit(dec) ELSE [dec EXCEPT !.pc = "top"]
    /\ UNCHANGED <<pq, last, fstamp, con, cl, hist, clk, rd, cy, sk, tp>>
    /\ UNCHANGED pqvars
    /\ UNCHANGED fqvars

\* ff_player_acquire_video_frame, lines 1614-1620, for a realtime stream
\* whose master clock is the external one: check_external_clock_speed runs
\* unless the player is paused, and the picture queue is looked at
Enter(c) ==
    [c EXCEPT !.pc = "retry", !.called = ff_packet_queue_get_serial(pq),
              !.dropped = FALSE, !.ret = NoHandout,
              !.entry = [made |-> TRUE, paused |-> cl.paused,
                         force_refresh |-> c.force_refresh],
              !.checked = ~cl.paused /\ cl.master = "external",
              !.timer_set = FALSE, !.synced = FALSE, !.advanced = 0]

\* ff_player_acquire_video_frame is called while the video stream is open,
\* by a host that tests paused and force_refresh before it calls
VCall ==
    /\ ~pull
    /\ thread = "running"
    /\ ~cl.paused \/ con.force_refresh
    /\ cl.pc # "done"
    /\ con.pc = "idle"
    /\ fpc["reader"] = "idle"
    /\ con' = Enter(con)
    /\ UNCHANGED <<pq, last, dec, fstamp, cl, hist, clk, rd, cy, sk, tp>>
    /\ UNCHANGED pqvars
    /\ UNCHANGED fqvars

\* ff_player_acquire_video_frame is called while the video stream is open,
\* whatever paused and force_refresh are
VCallAny ==
    /\ ~pull
    /\ thread = "running"
    /\ cl.pc # "done"
    /\ con.pc = "idle"
    /\ fpc["reader"] = "idle"
    /\ con' = Enter(con)
    /\ UNCHANGED <<pq, last, dec, fstamp, cl, hist, clk, rd, cy, sk, tp>>
    /\ UNCHANGED pqvars
    /\ UNCHANGED fqvars

\* ff_player_acquire_video_frame, lines 1621-1628: a frame of another serial
\* than the packet queue's is dropped
VRetry ==
    /\ con.pc = "retry"
    /\ IF ff_frame_queue_get_frames_remaining(fq) = 0
       THEN /\ con' = [con EXCEPT !.pc = "display"]
            /\ UNCHANGED fpc
       ELSE LET frame == (fq.rindex + fq.rindex_shown) % fq.max_size IN
            IF fstamp[frame] # ff_packet_queue_get_serial(pq)
            THEN /\ con' = [con EXCEPT !.pc = "drop", !.dropped = TRUE]
                 /\ fpc' = [fpc EXCEPT !["reader"] = "next"]
            ELSE /\ con' = [con EXCEPT !.pc = "fresh"]
                 /\ UNCHANGED fpc
    /\ UNCHANGED <<pq, last, fq, thread, wret, nnext, pull, dec, fstamp, cl, hist, clk, rd, cy, sk, tp>>
    /\ UNCHANGED pqvars

\* mutant: a paused player's frame is shown all the same
Mutant_fresh_ignores_paused(c, paused, choice) ==
    [c EXCEPT !.pc = IF choice = "wait" THEN "display"
                     ELSE IF choice = "late" THEN "drop" ELSE "show",
              !.timer_set = TRUE, !.synced = TRUE, !.advanced = @ + 1]

\* ff_player_acquire_video_frame, lines 1630-1656, for a frame whose pts is
\* a number: frame_timer is set to the time when the frame's serial is not
\* the last shown frame's; a paused player goes to display; a frame whose
\* time has not come goes to display; otherwise frame_timer moves on by the
\* delay, update_video_pts sets the video clock and syncs the external one,
\* and ff_frame_queue_next is called
Fresh(c, paused, choice) ==
    LET timed == [c EXCEPT !.timer_set =
                     @ \/ fstamp[fq.rindex] #
                             fstamp[(fq.rindex + fq.rindex_shown) % fq.max_size]]
    IN  IF paused \/ choice = "wait"
        THEN [timed EXCEPT !.pc = "display"]
        ELSE [timed EXCEPT !.pc = IF choice = "late" THEN "drop" ELSE "show",
                           !.timer_set = TRUE, !.synced = TRUE,
                           !.advanced = @ + 1]

\* mutant: a stepping player drops late frames too
Mutant_late_ignores_step(remaining, step, master) ==
    remaining > 1 /\ master # "video"

\* ff_player_acquire_video_frame, lines 1657-1660: a frame whose time is
\* over may be dropped when another frame follows it, the player is not
\* stepping and the master clock is not the video clock
MayDropLate(remaining, step, master) ==
    remaining > 1 /\ ~step /\ master # "video"

\* ff_player_acquire_video_frame, lines 1630-1665: while paused the frame
\* stays; otherwise it waits for its time, is dropped as late (the time is
\* past frame_timer plus the duration to the next frame), or is shown
VFresh ==
    /\ con.pc = "fresh"
    /\ IF cl.paused
       THEN /\ con' = Fresh(con, TRUE, "wait")
            /\ UNCHANGED fpc
       ELSE \E choice \in {"wait", "late", "show"} :
              /\ choice = "late" =>
                    MayDropLate(ff_frame_queue_get_frames_remaining(fq), cl.step,
                                cl.master)
              /\ con' = Fresh(con, FALSE, choice)
              /\ fpc' = [fpc EXCEPT !["reader"] =
                           IF choice = "wait" THEN "idle" ELSE "next"]
    /\ UNCHANGED <<pq, last, fq, thread, wret, nnext, pull, dec, fstamp, cl, hist, clk, rd, cy, sk, tp>>
    /\ UNCHANGED pqvars

\* ff_frame_queue_next has returned: goto retry, or force_refresh = true
\* and, when stepping and not paused, stream_toggle_pause
VNextDone ==
    /\ con.pc \in {"drop", "show"}
    /\ fpc["reader"] = "idle"
    /\ con' = IF con.pc = "drop" THEN [con EXCEPT !.pc = "retry"]
              ELSE [con EXCEPT !.pc = "display", !.force_refresh = TRUE]
    /\ cl' = IF con.pc = "drop" THEN cl
             ELSE LET player == IF cl.step /\ ~cl.paused THEN stream_toggle_pause(cl)
                                ELSE cl
                      counted == IF cl.stepping /\ Len(cl.shown) < 2
                                 THEN [player EXCEPT
                                         !.shown = Append(@, fstamp[fq.rindex])]
                                 ELSE player
                  IN  IF cl.stepped \in {0, 1}
                      THEN [counted EXCEPT !.stepped = @ + 1]
                      ELSE counted
    /\ UNCHANGED <<pq, last, dec, fstamp, hist, clk, rd, cy, sk, tp>>
    /\ UNCHANGED pqvars
    /\ UNCHANGED fqvars

\* ff_frame_queue_peek_last: the slot at rindex
ff_frame_queue_peek_last(queue) == queue.rindex

\* mutant: force_refresh alone hands out the slot at rindex
Mutant_display_ignores_shown(c, queue) ==
    IF c.force_refresh
    THEN [c EXCEPT !.pc = "idle",
                   !.ret = [slot |-> ff_frame_queue_peek_last(queue),
                            serial |-> fstamp[ff_frame_queue_peek_last(queue)],
                            live |-> ff_packet_queue_get_serial(pq)]]
    ELSE [c EXCEPT !.pc = "idle", !.force_refresh = FALSE]

\* ff_player_acquire_video_frame, lines 1672-1678: with force_refresh set
\* and rindex_shown not 0 the frame ff_frame_queue_peek_last gives is
\* returned; otherwise force_refresh is cleared and NULL returned
Display(c, queue) ==
    IF c.force_refresh /\ queue.rindex_shown # 0
    THEN [c EXCEPT !.pc = "idle",
                   !.ret = [slot |-> ff_frame_queue_peek_last(queue),
                            serial |-> fstamp[ff_frame_queue_peek_last(queue)],
                            live |-> ff_packet_queue_get_serial(pq)]]
    ELSE [c EXCEPT !.pc = "idle", !.force_refresh = FALSE]

\* ff_player_acquire_video_frame, lines 1672-1678: the frame handed out for
\* display is ff_frame_queue_peek_last
VDisplay ==
    /\ con.pc = "display"
    /\ con' = Display(con, fq)
    /\ UNCHANGED <<pq, last, dec, fstamp, cl, hist, clk, rd, cy, sk, tp>>
    /\ UNCHANGED pqvars
    /\ UNCHANGED fqvars

\* ff_player_acquire_audio_buf is called and calls ff_frame_queue_peek_readable
ACall ==
    /\ pull
    /\ ~cl.paused
    /\ cl.pc # "done"
    /\ con.pc = "idle"
    /\ fpc["reader"] = "idle"
    /\ con' = [con EXCEPT !.pc = "peek", !.called = ff_packet_queue_get_serial(pq),
                          !.dropped = FALSE, !.ret = NoHandout]
    /\ fpc' = [fpc EXCEPT !["reader"] =
                 IF ff_frame_queue_peek_readable_wait(fq, pq) THEN "wait" ELSE "check"]
    /\ UNCHANGED <<pq, last, fq, thread, wret, nnext, pull, dec, fstamp, cl, hist, clk, rd, cy, sk, tp>>
    /\ UNCHANGED pqvars

\* ff_frame_queue_peek_readable returns: NULL ends the call, a frame is
\* consumed with ff_frame_queue_next
APeekReturn ==
    /\ con.pc = "peek"
    /\ fpc["reader"] = "check"
    /\ LET frame == ff_frame_queue_peek_readable(fq, pq) IN
       /\ con' = IF frame = NULL THEN [con EXCEPT !.pc = "idle"]
                 ELSE [con EXCEPT !.pc = "next", !.frame = frame]
       /\ fpc' = [fpc EXCEPT !["reader"] = IF frame = NULL THEN "idle" ELSE "next"]
    /\ UNCHANGED <<pq, last, fq, thread, wret, nnext, pull, dec, fstamp, cl, hist, clk, rd, cy, sk, tp>>
    /\ UNCHANGED pqvars

\* mutant: the samples of the first frame consumed are returned
Mutant_audio_returns_first ==
    /\ con.pc = "next"
    /\ fpc["reader"] = "idle"
    /\ con' = [con EXCEPT !.pc = "idle", !.frame = NULL,
                          !.audio_clock_serial = fstamp[con.frame],
                          !.ret = [slot |-> con.frame, serial |-> fstamp[con.frame],
                                   live |-> ff_packet_queue_get_serial(pq)]]
    /\ UNCHANGED <<pq, last, fq, thread, fpc, wret, nnext, pull, dec, fstamp, cl, hist, clk, rd, cy, sk, tp>>
    /\ UNCHANGED pqvars

\* ff_player_acquire_audio_buf, line 1693 and lines 1694-1781: a frame of
\* another serial than the packet queue's sends the call back to
\* peek_readable; otherwise its samples are returned, unless the resampler
\* fails
ALoop ==
    /\ con.pc = "next"
    /\ fpc["reader"] = "idle"
    /\ IF fstamp[con.frame] # ff_packet_queue_get_serial(pq)
       THEN /\ con' = [con EXCEPT !.pc = "peek", !.frame = NULL, !.dropped = TRUE]
            /\ fpc' = [fpc EXCEPT !["reader"] =
                         IF ff_frame_queue_peek_readable_wait(fq, pq) THEN "wait" ELSE "check"]
       ELSE /\ \E swr_ok \in BOOLEAN :
                 con' = IF swr_ok
                        THEN [con EXCEPT !.pc = "idle", !.frame = NULL,
                                         !.audio_clock_serial = fstamp[con.frame],
                                         !.ret = [slot |-> con.frame, serial |-> fstamp[con.frame],
                                                  live |-> ff_packet_queue_get_serial(pq)]]
                        ELSE [con EXCEPT !.pc = "idle", !.frame = NULL]
            /\ UNCHANGED fpc
    /\ UNCHANGED <<pq, last, fq, thread, wret, nnext, pull, dec, fstamp, cl, hist, clk, rd, cy, sk, tp>>
    /\ UNCHANGED pqvars

\* ff_player_close: ff_player_abort
CAbortRequest ==
    /\ cl.pc = "idle"
    /\ cl' = [cl EXCEPT !.pc = "join_read", !.abort_request = TRUE]
    /\ UNCHANGED <<pq, last, dec, fstamp, con, hist, clk, rd, cy, sk, tp>>
    /\ UNCHANGED pqvars
    /\ UNCHANGED fqvars

\* mutant: ff_player_close does not wait for the read thread
Mutant_close_skips_join ==
    /\ cl.pc = "join_read"
    /\ cl' = [cl EXCEPT !.pc = IF thread = "running" THEN "abort" ELSE "done"]
    /\ UNCHANGED <<pq, last, dec, fstamp, con, hist, clk, rd, cy, sk, tp>>
    /\ UNCHANGED pqvars
    /\ UNCHANGED fqvars

\* ff_player_close: thrd_join(read_thread), then stream_close if the stream
\* is open
CJoinRead ==
    /\ cl.pc = "join_read"
    /\ cl.read_thread = "exited"
    /\ cl' = [cl EXCEPT !.pc = IF thread = "running" THEN "abort" ELSE "done"]
    /\ UNCHANGED <<pq, last, dec, fstamp, con, hist, clk, rd, cy, sk, tp>>
    /\ UNCHANGED pqvars
    /\ UNCHANGED fqvars

\* ff_decoder_abort: ff_packet_queue_abort
CAbort ==
    /\ cl.pc = "abort"
    /\ pq' = ff_packet_queue_abort(pq)
    /\ dec' = SignalDecoder(dec)
    /\ cl' = [cl EXCEPT !.pc = "signal", !.found = pq.serial]
    /\ UNCHANGED <<last, fstamp, con, hist, clk, rd, cy, sk, tp>>
    /\ UNCHANGED pqvars
    /\ UNCHANGED fqvars

\* ff_decoder_abort: ff_frame_queue_signal
CSignal ==
    /\ cl.pc = "signal"
    /\ fpc' \in cnd_signal(fpc)
    /\ cl' = [cl EXCEPT !.pc = "join"]
    /\ UNCHANGED <<pq, last, fq, thread, wret, nnext, pull, dec, fstamp, con, hist, clk, rd, cy, sk, tp>>
    /\ UNCHANGED pqvars

\* ff_decoder_abort: thrd_join(decoder->thread)
CJoin ==
    /\ cl.pc = "join"
    /\ dec.pc = "exit"
    /\ cl' = [cl EXCEPT !.pc = "flush"]
    /\ UNCHANGED <<pq, last, dec, fstamp, con, hist, clk, rd, cy, sk, tp>>
    /\ UNCHANGED pqvars
    /\ UNCHANGED fqvars

\* ff_decoder_abort: ff_packet_queue_flush
CFlush ==
    /\ cl.pc = "flush"
    /\ pq' = ff_packet_queue_flush(pq)
    /\ cl' = [cl EXCEPT !.pc = "done"]
    /\ UNCHANGED <<last, dec, fstamp, con, hist, clk, rd, cy, sk, tp>>
    /\ UNCHANGED pqvars
    /\ UNCHANGED fqvars

\* read_thread opens the audio stream before the video stream: stream_open
\* -> ff_decoder_start starts the packet queue, and the stream is open if
\* thrd_create succeeded
ROpenOther ==
    /\ ~pull
    /\ cl.read_thread = "open"
    /\ thread = "none"
    /\ cl.other.aborted
    /\ \E created \in BOOLEAN :
         cl' = [cl EXCEPT !.other = ff_packet_queue_start(@), !.other_open = created]
    /\ UNCHANGED <<pq, last, dec, fstamp, con, hist, clk, rd, cy, sk, tp>>
    /\ UNCHANGED pqvars
    /\ UNCHANGED fqvars

\* ff_player_toggle_pause, called by the host before it seeks, from the
\* thread that refreshes the video
HTogglePause ==
    /\ cl.nseek = 0
    /\ con.pc = "idle"
    /\ cl' = [stream_toggle_pause(cl) EXCEPT !.step = FALSE, !.stepped = -1]
    /\ UNCHANGED <<pq, last, dec, fstamp, con, hist, clk, rd, cy, sk, tp>>
    /\ UNCHANGED pqvars
    /\ UNCHANGED fqvars

\* ff_player_seek -> stream_seek, called from the thread that refreshes the
\* video: a request is taken unless one is pending
HSeek ==
    /\ cl.nseek < MaxSeeks
    /\ con.pc = "idle"
    /\ \E by_bytes \in BOOLEAN :
         cl' = IF ~cl.seek_req
               THEN [cl EXCEPT !.seek_req = TRUE, !.seek_bytes = by_bytes,
                               !.nseek = @ + 1]
               ELSE [cl EXCEPT !.nseek = @ + 1]
    /\ UNCHANGED <<pq, last, dec, fstamp, con, hist, clk, rd, cy, sk, tp>>
    /\ UNCHANGED pqvars
    /\ UNCHANGED fqvars

\* read_thread, lines 1291-1298: a pending seek is given to
\* avformat_seek_file, which succeeds or fails
RSeekFile ==
    /\ cl.read_thread = "run"
    /\ cl.rpc = "loop"
    /\ cl.seek_req
    /\ pq.serial < MaxSerial
    /\ \E ok \in BOOLEAN :
         cl' = [cl EXCEPT !.rpc = IF ok THEN "flush_audio" ELSE "clear",
                          !.seek = [ok |-> ok,
                                    audio |-> audio_packet_queue.serial,
                                    video |-> video_packet_queue.serial,
                                    clock |-> cl.external_clock],
                          !.stepping = FALSE,
                          !.shown = <<>>]
    /\ UNCHANGED <<pq, last, dec, fstamp, con, hist, clk, rd, cy, sk, tp>>
    /\ UNCHANGED pqvars
    /\ UNCHANGED fqvars

\* read_thread, lines 1300-1302
RSeekFlushAudio ==
    /\ cl.rpc = "flush_audio"
    /\ IF ~audio_stream_open
       THEN /\ cl' = [cl EXCEPT !.rpc = "flush_video"]
            /\ UNCHANGED pq
       ELSE IF pull
       THEN /\ pq' = ff_packet_queue_flush(pq)
            /\ cl' = [cl EXCEPT !.rpc = "flush_video"]
       ELSE /\ cl' = [cl EXCEPT !.rpc = "flush_video",
                                !.other = ff_packet_queue_flush(@)]
            /\ UNCHANGED pq
    /\ UNCHANGED <<last, dec, fstamp, con, hist, clk, rd, cy, sk, tp>>
    /\ UNCHANGED pqvars
    /\ UNCHANGED fqvars

\* read_thread, lines 1303-1305
RSeekFlushVideo ==
    /\ cl.rpc = "flush_video"
    /\ IF ~video_stream_open
       THEN /\ cl' = [cl EXCEPT !.rpc = "clock"]
            /\ UNCHANGED pq
       ELSE IF pull
       THEN /\ cl' = [cl EXCEPT !.rpc = "clock", !.other = ff_packet_queue_flush(@)]
            /\ UNCHANGED pq
       ELSE /\ pq' = ff_packet_queue_flush(pq)
            /\ cl' = [cl EXCEPT !.rpc = "clock"]
    /\ UNCHANGED <<last, dec, fstamp, con, hist, clk, rd, cy, sk, tp>>
    /\ UNCHANGED pqvars
    /\ UNCHANGED fqvars

\* read_thread, lines 1306-1310: the external clock is set to the target,
\* or to NAN for a seek by bytes, with serial 0
RSeekClock ==
    /\ cl.rpc = "clock"
    /\ cl' = [cl EXCEPT !.rpc = "clear",
                        !.external_clock =
                            ff_clock_set(@, IF cl.seek_bytes THEN "nan" ELSE "target", 0)]
    /\ UNCHANGED <<pq, last, dec, fstamp, con, hist, clk, rd, cy, sk, tp>>
    /\ UNCHANGED pqvars
    /\ UNCHANGED fqvars

\* read_thread, lines 1312-1315: after the seek or its failure the request
\* is cleared, attachments are asked for, and a paused player is stepped
RSeekClear ==
    /\ cl.rpc = "clear"
    /\ cl' = [cl EXCEPT !.rpc = IF cl.paused THEN "step" ELSE "attach",
                        !.seek_req = FALSE,
                        !.queue_attachments_req = TRUE,
                        !.stepping = cl.paused]
    /\ UNCHANGED <<pq, last, dec, fstamp, con, hist, clk, rd, cy, sk, tp>>
    /\ UNCHANGED pqvars
    /\ UNCHANGED fqvars

\* ff_player_step_to_next_frame, lines 1809-1811
RStepToggle ==
    /\ cl.rpc = "step"
    /\ cl' = [(IF cl.paused THEN stream_toggle_pause(cl) ELSE cl) EXCEPT
                 !.rpc = "step_set"]
    /\ UNCHANGED <<pq, last, dec, fstamp, con, hist, clk, rd, cy, sk, tp>>
    /\ UNCHANGED pqvars
    /\ UNCHANGED fqvars

\* ff_player_step_to_next_frame, line 1812
RStepSet ==
    /\ cl.rpc = "step_set"
    /\ cl' = [cl EXCEPT !.rpc = "attach", !.step = TRUE]
    /\ UNCHANGED <<pq, last, dec, fstamp, con, hist, clk, rd, cy, sk, tp>>
    /\ UNCHANGED pqvars
    /\ UNCHANGED fqvars

\* read_thread, lines 1319-1328, for a stream without an attached picture
RAttach ==
    /\ cl.rpc = "attach"
    /\ cl' = [cl EXCEPT !.rpc = "loop", !.queue_attachments_req = FALSE]
    /\ UNCHANGED <<pq, last, dec, fstamp, con, hist, clk, rd, cy, sk, tp>>
    /\ UNCHANGED pqvars
    /\ UNCHANGED fqvars

\* the read thread's handling of a seek
SeekStep ==
    \/ RSeekFile
    \/ RSeekFlushAudio
    \/ RSeekFlushVideo
    \/ RSeekClock
    \/ RSeekClear
    \/ RStepToggle
    \/ RStepSet
    \/ RAttach

\* the steps of ff_player_acquire_video_frame
VideoStep ==
    \/ VRetry
    \/ VFresh
    \/ VNextDone
    \/ VDisplay
    \/ FQNext
    \/ FQNextSize

\* the steps of the decoder thread
DecoderStep ==
    \/ DTop
    \/ DRecv
    \/ DNeed
    \/ DGet
    \/ DChk
    \/ DSend
    \/ DDrop
    \/ DPeekWritable
    \/ FQPeekWritableWoken
    \/ FQPeekWritableReturn
    \/ DFill
    \/ FQPushWindex
    \/ FQPushSize
    \/ DQueued

\* the steps of the consumer inside a call it has made
ConsumerStep ==
    \/ VRetry
    \/ VFresh
    \/ VNextDone
    \/ VDisplay
    \/ FQPeekReadableWoken
    \/ APeekReturn
    \/ ALoop
    \/ FQNext
    \/ FQNextSize

\* the steps the read thread is bound to take: opening the stream, and
\* leaving its loop once abort_request is set
ReaderStep ==
    \/ ROpen
    \/ RAbortSeen

\* the steps of ff_player_close after ff_player_abort
CloseStep ==
    \/ CJoinRead
    \/ CAbort
    \/ CSignal
    \/ CJoin
    \/ CFlush

(***************************************************************************)
(* A stream while it plays: packets, seeks, decoding and consumption.      *)
(***************************************************************************)
NextStream ==
    \/ ROpen
    \/ RPut
    \/ RPutNull
    \/ RSeek
    \/ DecoderStep
    \/ DSpuriousWake
    \/ VCall
    \/ ACall
    \/ ConsumerStep
    \/ FQSpuriousWake

SpecStream == InitPlayer /\ [][NextStream]_vars

(***************************************************************************)
(* A stream that ff_player_close shuts down at any moment.                 *)
(***************************************************************************)
NextClose ==
    \/ ROpen
    \/ RPut
    \/ RPutNull
    \/ RAbortSeen
    \/ RBreak
    \/ DecoderStep
    \/ DSpuriousWake
    \/ VCall
    \/ ACall
    \/ ConsumerStep
    \/ FQSpuriousWake
    \/ CAbortRequest
    \/ CloseStep

SpecClose == InitPlayer /\ [][NextClose]_vars

\* Every thread that can take a step is scheduled: the decoder thread, the
\* consumer inside a call, the read thread in stream_open and at the test
\* of abort_request, and the thread in ff_player_close. Nothing obliges the consumer to call
\* again, the read thread to find packets, or cnd_wait to wake by itself.
FairClose ==
    /\ SpecClose
    /\ WF_vars(DecoderStep)
    /\ WF_vars(ConsumerStep)
    /\ WF_vars(ReaderStep)
    /\ WF_vars(CloseStep)

(***************************************************************************)
(* A player with a video stream and perhaps an audio stream, whose host    *)
(* pauses and seeks.                                                       *)
(***************************************************************************)
InitSeek ==
    /\ InitPQ
    /\ InitPicture
    /\ InitPL

NextSeek ==
    \/ ROpenOther
    \/ ROpen
    \/ RPut
    \/ SeekStep
    \/ HTogglePause
    \/ HSeek
    \/ DecoderStep
    \/ VCall
    \/ VideoStep

SpecSeek == InitSeek /\ [][NextSeek]_vars

(***************************************************************************)
(* A player with a video stream whose host calls the video refresh without *)
(* looking at paused and force_refresh first, and pauses and seeks at any  *)
(* time between two calls.                                                 *)
(***************************************************************************)
\* ff_player_toggle_pause, called from the thread that refreshes the video
HTogglePauseAny ==
    /\ thread = "running"
    /\ con.pc = "idle"
    /\ cl' = [stream_toggle_pause(cl) EXCEPT !.step = FALSE, !.stepped = -1]
    /\ UNCHANGED <<pq, last, dec, fstamp, con, hist, clk, rd, cy, sk, tp>>
    /\ UNCHANGED pqvars
    /\ UNCHANGED fqvars

\* ff_player_seek -> stream_seek of a player whose seek_by_bytes option is
\* off, called from the thread that refreshes the video
HSeekTime ==
    /\ thread = "running"
    /\ cl.nseek < MaxSeeks
    /\ con.pc = "idle"
    /\ cl' = IF ~cl.seek_req
             THEN [cl EXCEPT !.seek_req = TRUE, !.seek_bytes = FALSE, !.nseek = @ + 1]
             ELSE [cl EXCEPT !.nseek = @ + 1]
    /\ UNCHANGED <<pq, last, dec, fstamp, con, hist, clk, rd, cy, sk, tp>>
    /\ UNCHANGED pqvars
    /\ UNCHANGED fqvars

\* ff_player_set_force_refresh(player, false), called by the host after it
\* has displayed the frame a call returned
HClearForceRefresh ==
    /\ con.pc = "idle"
    /\ con.ret # NoHandout
    /\ con.force_refresh
    /\ con' = [con EXCEPT !.force_refresh = FALSE]
    /\ UNCHANGED <<pq, last, dec, fstamp, cl, hist, clk, rd, cy, sk, tp>>
    /\ UNCHANGED pqvars
    /\ UNCHANGED fqvars

NextRefresh ==
    \/ ROpen
    \/ RPut
    \/ SeekStep
    \/ HSeekTime
    \/ HTogglePauseAny
    \/ HClearForceRefresh
    \/ DecoderStep
    \/ VCallAny
    \/ VideoStep

SpecRefresh == InitSeek /\ [][NextRefresh]_vars

(***************************************************************************)
(* A player with a video stream whose host pauses and steps frame by       *)
(* frame. The refresh is called again and again, the decoder thread runs,  *)
(* and a frame that waits for its time is shown once the time has come.    *)
(***************************************************************************)
\* mutant: a paused player stays paused
Mutant_step_keeps_paused(player) ==
    [player EXCEPT !.step = TRUE]

\* ff_player_step_to_next_frame
ff_player_step_to_next_frame(player) ==
    [(IF player.paused THEN stream_toggle_pause(player) ELSE player) EXCEPT
        !.step = TRUE]

\* ff_player_step_to_next_frame, called by the host from the thread that
\* refreshes the video
HStep ==
    /\ thread = "running"
    /\ con.pc = "idle"
    /\ cl' = [ff_player_step_to_next_frame(cl) EXCEPT !.stepped = 0]
    /\ UNCHANGED <<pq, last, dec, fstamp, con, hist, clk, rd, cy, sk, tp>>
    /\ UNCHANGED pqvars
    /\ UNCHANGED fqvars

\* ff_player_acquire_video_frame, lines 1641-1665: the time of the frame has
\* come
VShow ==
    /\ VFresh
    /\ con'.pc = "show"

NextStepping ==
    \/ ROpen
    \/ RPut
    \/ HTogglePause
    \/ HStep
    \/ DecoderStep
    \/ VCallAny
    \/ VideoStep

SpecStepping == InitSeek /\ [][NextStepping]_vars

FairStepping ==
    /\ SpecStepping
    /\ WF_vars(VCallAny)
    /\ WF_vars(VideoStep)
    /\ SF_vars(VShow)

(***************************************************************************)
(* The same player whose host also sets force_refresh, as for an exposed   *)
(* window, and clears it after it has displayed a frame.                   *)
(***************************************************************************)
\* ff_player_set_force_refresh(player, true)
HForceRefresh ==
    /\ thread = "running"
    /\ con.pc = "idle"
    /\ ~con.force_refresh
    /\ con' = [con EXCEPT !.force_refresh = TRUE]
    /\ UNCHANGED <<pq, last, dec, fstamp, cl, hist, clk, rd, cy, sk, tp>>
    /\ UNCHANGED pqvars
    /\ UNCHANGED fqvars

NextDisplay ==
    \/ NextStepping
    \/ HForceRefresh
    \/ HClearForceRefresh

SpecDisplay == InitSeek /\ [][NextDisplay]_vars

(***************************************************************************)
(* The same player with the video clock, the audio clock or the external   *)
(* clock as its master clock.                                              *)
(***************************************************************************)
InitLate ==
    /\ InitPQ
    /\ InitPicture
    /\ \E master \in {"video", "audio", "external"} : InitControlOf(master)
    /\ rd = ReaderAt(FALSE, TRUE, TRUE, FALSE, 0, Packet)
    /\ cy = NoCycle
    /\ sk = NoRequest
    /\ tp = NoToggle

SpecLate == InitLate /\ [][NextStepping]_vars

(***************************************************************************)
(* The clocks under the calls the player makes on them.                    *)
(***************************************************************************)
\* the pts a frame, the audio hardware or a seek gives a clock
PtsValues == {0, 20000}

\* the speeds given to ff_clock_set_speed
Speeds == {EXTERNAL_CLOCK_SPEED_MIN, SpeedOne, EXTERNAL_CLOCK_SPEED_MAX}

ClockNames == {"audio", "video", "external"}

\* *clock->queue_serial: the packet queue's serial for the audio and the
\* video clock, the clock's own serial for the external clock
QueueSerial(k, name) ==
    IF name = "external" THEN k.external.serial ELSE k.queue_serial[name]

\* stream_toggle_pause on the clocks; enosys: read_pause_return is
\* AVERROR(ENOSYS)
stream_toggle_pause_clocks(k, enosys) ==
    LET video1 == IF k.paused /\ ~enosys THEN [k.video EXCEPT !.paused = FALSE]
                  ELSE k.video
        video2 == IF k.paused
                  THEN ff_clock_set_at(video1,
                                       ff_clock_get_at(video1, k.queue_serial.video, k.time),
                                       video1.serial, k.time)
                  ELSE k.video
        external2 == ff_clock_set_at(k.external,
                                     ff_clock_get_at(k.external, k.external.serial, k.time),
                                     k.external.serial, k.time)
    IN  [k EXCEPT !.paused = ~k.paused,
                  !.audio = [@ EXCEPT !.paused = ~k.paused],
                  !.video = [video2 EXCEPT !.paused = ~k.paused],
                  !.external = [external2 EXCEPT !.paused = ~k.paused]]

\* nothing but the clocks changes
ClockOnly ==
    /\ UNCHANGED <<pq, last, dec, fstamp, con, cl, hist, rd, cy, sk, tp>>
    /\ UNCHANGED pqvars
    /\ UNCHANGED fqvars

\* av_gettime_relative advances
KTick ==
    /\ clk.time < MaxTime * TimeStep
    /\ clk' = [clk EXCEPT !.time = @ + TimeStep]
    /\ ClockOnly

\* update_video_pts: the video clock is set to a frame's pts and serial and
\* the external clock synchronised to it
KUpdateVideoPts ==
    /\ \E pts \in PtsValues, serial \in 0 .. clk.queue_serial.video :
         LET video == ff_clock_set_at(clk.video, pts, serial, clk.time) IN
         clk' = [clk EXCEPT
                   !.video = video,
                   !.external = ff_clock_sync_to_slave(@, @.serial, video,
                                   clk.queue_serial.video, AV_NOSYNC_THRESHOLD, clk.time)]
    /\ ClockOnly

\* ff_player_sync_audio: the audio clock is set at the time the host gives
\* and the external clock synchronised to it
KSyncAudio ==
    /\ \E value \in PtsValues, serial \in 0 .. clk.queue_serial.audio,
          start \in {clk.time - TimeStep, clk.time} :
         /\ start >= 0
         /\ LET audio == ff_clock_set_at(clk.audio, value, serial, start) IN
            clk' = [clk EXCEPT
                      !.audio = audio,
                      !.external = ff_clock_sync_to_slave(@, @.serial, audio,
                                      clk.queue_serial.audio, AV_NOSYNC_THRESHOLD, clk.time)]
    /\ ClockOnly

\* read_thread applies a seek: the packet queues of the open streams are
\* flushed and the external clock is set to the target, or to NAN for a
\* seek by bytes, with serial 0
KSeek ==
    /\ clk.queue_serial.audio < MaxFlush
    /\ clk.queue_serial.video < MaxFlush
    /\ \E audio_open \in BOOLEAN, video_open \in BOOLEAN, target \in PtsValues \cup {NAN} :
         clk' = [clk EXCEPT
                   !.queue_serial.audio = IF audio_open THEN @ + 1 ELSE @,
                   !.queue_serial.video = IF video_open THEN @ + 1 ELSE @,
                   !.external = ff_clock_set_at(@, target, 0, clk.time)]
    /\ ClockOnly

\* stream_toggle_pause
KTogglePause ==
    /\ \E enosys \in BOOLEAN : clk' = stream_toggle_pause_clocks(clk, enosys)
    /\ ClockOnly

\* ff_clock_set_speed on the external clock; av_gettime_relative may advance
\* between its two readings
KSetSpeed ==
    /\ \E speed \in Speeds, time_set \in {clk.time, clk.time + TimeStep} :
         /\ time_set <= MaxTime * TimeStep
         /\ LET external == ff_clock_set_speed(clk.external, clk.external.serial, speed,
                                               clk.time, time_set)
            IN  clk' = [clk EXCEPT
                          !.external = external,
                          !.time = time_set,
                          !.set_speed =
                              [before |-> ff_clock_get_at(clk.external, clk.external.serial,
                                                          clk.time),
                               after |-> ff_clock_get_at(external, external.serial, time_set),
                               same_instant |-> time_set = clk.time,
                               calls |-> 1]]
    /\ ClockOnly

NextClock ==
    \/ KTick
    \/ KUpdateVideoPts
    \/ KSyncAudio
    \/ KSeek
    \/ KTogglePause
    \/ KSetSpeed

SpecClock == Init /\ [][NextClock]_vars

(***************************************************************************)
(* The external clock's speed under check_external_clock_speed.            *)
(***************************************************************************)
\* the packet counts check_external_clock_speed may find
PacketCounts == {EXTERNAL_CLOCK_MIN_FRAMES - 1,
                 EXTERNAL_CLOCK_MIN_FRAMES, EXTERNAL_CLOCK_MIN_FRAMES + 1,
                 EXTERNAL_CLOCK_MAX_FRAMES, EXTERNAL_CLOCK_MAX_FRAMES + 1}

\* ff_player_acquire_video_frame calls check_external_clock_speed, which
\* calls ff_clock_set_speed unless the speed stays
KCheckSpeed ==
    /\ \E video_open \in BOOLEAN, audio_open \in BOOLEAN,
          video_count \in PacketCounts, audio_count \in PacketCounts :
         /\ video_open \/ audio_open
         /\ LET speed == check_external_clock_speed(clk.external.speed, video_open,
                                                    video_count, audio_open, audio_count)
                low == \/ video_open /\ video_count <= EXTERNAL_CLOCK_MIN_FRAMES
                       \/ audio_open /\ audio_count <= EXTERNAL_CLOCK_MIN_FRAMES
                high == /\ ~video_open \/ video_count > EXTERNAL_CLOCK_MAX_FRAMES
                        /\ ~audio_open \/ audio_count > EXTERNAL_CLOCK_MAX_FRAMES
            IN  clk' = [clk EXCEPT
                          !.external =
                              IF low \/ high \/ clk.external.speed # SpeedOne
                              THEN ff_clock_set_speed(@, @.serial, speed, clk.time, clk.time)
                              ELSE @,
                          !.check = [video_open |-> video_open, video_count |-> video_count,
                                     audio_open |-> audio_open, audio_count |-> audio_count,
                                     speed |-> clk.external.speed, calls |-> 1]]
    /\ ClockOnly

NextSpeed == KCheckSpeed

SpecSpeed == Init /\ [][NextSpeed]_vars

(***************************************************************************)
(* The read thread's loop, step by step, with the decoders, the consumers  *)
(* of the frames and the host's seek and pause calls.                      *)
(***************************************************************************)
\* nothing but the read thread's loop and its streams changes
ReaderOnly ==
    /\ UNCHANGED <<pq, last, dec, fstamp, con, cl, hist, clk, cy, sk, tp>>
    /\ UNCHANGED pqvars
    /\ UNCHANGED fqvars

\* lines 1291-1318: a pending seek is applied; avformat_seek_file succeeds
\* or fails, which applied records
RdSeek ==
    /\ rd.pc = "seek"
    /\ IF rd.seek_req
       THEN \E seek_ok \in BOOLEAN :
              rd' = [rd EXCEPT
                       !.pc = "attach",
                       !.audio.queue = IF seek_ok /\ rd.audio.open
                                       THEN ff_packet_queue_flush(@) ELSE @,
                       !.video.queue = IF seek_ok /\ rd.video.open
                                       THEN ff_packet_queue_flush(@) ELSE @,
                       !.seek_req = FALSE,
                       !.queue_attachments_req = TRUE,
                       !.eof = FALSE,
                       !.nulls = NoNulls,
                       !.paused = FALSE,
                       !.applied = IF seek_ok THEN "ok" ELSE "failed"]
       ELSE rd' = [rd EXCEPT !.pc = "attach"]
    /\ ReaderOnly

\* lines 1319-1328: the attached picture and a null packet are queued on the
\* video queue; a failed av_packet_ref ends the loop
RdAttach ==
    /\ rd.pc = "attach"
    /\ IF rd.queue_attachments_req /\ rd.video.open /\ rd.attached_pic
       THEN \E ref_ok \in BOOLEAN, alloc_ok \in BOOLEAN :
              rd' = IF ~ref_ok THEN [rd EXCEPT !.pc = "exited", !.ret = ENOMEM]
                    ELSE [rd EXCEPT
                            !.pc = "full",
                            !.video = StreamPut(StreamPut(@, Packet, alloc_ok),
                                                NullPacket, alloc_ok),
                            !.iter.put = @ + 2 * Added(rd.video, alloc_ok),
                            !.iter.attached = @ + 2 * Added(rd.video, alloc_ok),
                            !.queue_attachments_req = FALSE]
       ELSE rd' = [rd EXCEPT !.pc = "full", !.queue_attachments_req = FALSE]
    /\ ReaderOnly

\* mutant: the loop goes on after the test
Mutant_full_goes_on ==
    /\ rd.pc = "full"
    /\ rd' = IF QueuesFull(rd) THEN [rd EXCEPT !.pc = "policy", !.iter.full = TRUE]
             ELSE [rd EXCEPT !.pc = "policy"]
    /\ ReaderOnly

\* lines 1329-1331: the backpressure test
RdFull ==
    /\ rd.pc = "full"
    /\ rd' = IF QueuesFull(rd) THEN [rd EXCEPT !.pc = "wait", !.iter.full = TRUE]
             ELSE [rd EXCEPT !.pc = "policy"]
    /\ ReaderOnly

\* lines 1333-1337 and 1364-1368: cnd_timedwait returns, signalled or after
\* 10 ms, and the loop continues
RdWait ==
    /\ rd.pc = "wait"
    /\ rd' = Continue(rd)
    /\ ReaderOnly

\* mutant: the end of playback ends the loop whatever opts.loop is
Mutant_policy_ignores_loop ==
    /\ rd.pc = "policy"
    /\ rd' = IF PlaybackComplete(rd)
             THEN [rd EXCEPT !.pc = "exited", !.ret = AVERROR_EOF,
                             !.iter.complete = TRUE]
             ELSE [rd EXCEPT !.pc = "read"]
    /\ ReaderOnly

\* lines 1339-1348: playback is complete; stream_seek to the start when
\* looping, which restarts counts, AVERROR_EOF and the end of the loop
\* otherwise
RdPolicy ==
    /\ rd.pc = "policy"
    /\ IF PlaybackComplete(rd)
       THEN IF rd.loop
            THEN /\ rd.seek_req \/ rd.nseek < MaxRestarts
                 /\ rd' = [rd EXCEPT !.pc = "read", !.iter.complete = TRUE,
                                     !.seek_req = TRUE,
                                     !.nseek = IF rd.seek_req THEN @ ELSE @ + 1,
                                     !.restarts = IF rd.seek_req THEN @ ELSE @ + 1]
            ELSE rd' = [rd EXCEPT !.pc = "exited", !.ret = AVERROR_EOF,
                                  !.iter.complete = TRUE]
       ELSE rd' = [rd EXCEPT !.pc = "read"]
    /\ ReaderOnly

\* mutant: the null packets are put at every read that finds the end
Mutant_nulls_at_every_eof(r, alloc_ok) ==
    [r EXCEPT
       !.video = IF r.video.open THEN StreamPut(@, NullPacket, alloc_ok) ELSE @,
       !.audio = IF r.audio.open THEN StreamPut(@, NullPacket, alloc_ok) ELSE @,
       !.eof = TRUE]

\* lines 1351-1359: at the end of the input, unless eof is set, a null
\* packet goes to the video queue and to the audio queue, if open, and eof
\* is set
PutNullPackets(r, alloc_ok) ==
    IF r.eof THEN r
    ELSE [r EXCEPT
            !.video = IF r.video.open THEN StreamPut(@, NullPacket, alloc_ok) ELSE @,
            !.audio = IF r.audio.open THEN StreamPut(@, NullPacket, alloc_ok) ELSE @,
            !.eof = TRUE]

\* lines 1349-1368: av_read_frame fails: at the end of the input, with an
\* error that will pass, or with an I/O error that ends the loop.  nulls
\* counts, up to 2, the packets this has added to each queue since eof was
\* cleared.
RdReadFails ==
    /\ rd.pc = "read"
    /\ \E at_eof \in BOOLEAN, pb_error \in BOOLEAN, alloc_ok \in BOOLEAN :
         LET after == IF at_eof THEN PutNullPackets(rd, alloc_ok) ELSE rd
             video == after.video.queue.packet_count - rd.video.queue.packet_count
             audio == after.audio.queue.packet_count - rd.audio.queue.packet_count
         IN  rd' = [after EXCEPT
                      !.pc = IF pb_error THEN "exited" ELSE "wait",
                      !.ret = IF pb_error THEN EIO ELSE @,
                      !.iter.read = TRUE,
                      !.iter.put = @ + video + audio,
                      !.nulls = [video |-> FFMIN(2, @.video + video),
                                 audio |-> FFMIN(2, @.audio + audio),
                                 lost |-> @.lost \/ (at_eof /\ ~rd.eof /\ ~alloc_ok),
                                 eof_reads |-> IF at_eof THEN FFMIN(2, @.eof_reads + 1)
                                               ELSE @.eof_reads]]
    /\ ReaderOnly

\* lines 1349 and 1370-1386: av_read_frame gives a packet, which is queued
\* on its stream's queue or dropped when it is of another stream or out of
\* the play range
RdRead ==
    /\ rd.pc = "read"
    /\ rd.nread < MaxReads
    /\ \E to \in Streams \cup {"none"} :
         LET r == [rd EXCEPT !.eof = FALSE, !.nulls = NoNulls, !.nread = @ + 1]
             queued == /\ to \in Streams
                       /\ r[to].open
                       /\ ~(to = "video" /\ r.attached_pic)
         IN  rd' = Continue(IF queued
                            THEN [r EXCEPT ![to] = StreamPut(@, Packet, TRUE)]
                            ELSE r)
    /\ ReaderOnly

\* a decoder thread takes a packet: one of another serial than its own
\* resets finished, one of another serial than the queue's is dropped, the
\* null packet ends in finished = packet_serial, any other gives a frame
RdDecode ==
    /\ \E s \in Streams :
         /\ rd[s].open
         /\ rd[s].queue.packets # <<>>
         /\ LET r == ff_packet_queue_get(rd[s].queue, 1)
                finished == IF r.serial # rd[s].packet_serial THEN 0 ELSE rd[s].finished
                live == r.serial = ff_packet_queue_get_serial(r.queue)
            IN  /\ (live /\ r.pkt.size # 0) => rd[s].frames < MaxFrames
                /\ rd' = [rd EXCEPT
                            ![s].queue = r.queue,
                            ![s].packet_serial = r.serial,
                            ![s].finished = IF live /\ r.pkt.size = 0 THEN r.serial
                                            ELSE finished,
                            ![s].frames = IF live /\ r.pkt.size # 0 THEN @ + 1 ELSE @]
    /\ ReaderOnly

\* the audio callback or the video refresh takes a frame
RdConsume ==
    /\ ~rd.paused
    /\ \E s \in Streams :
         /\ rd[s].frames > 0
         /\ rd' = [rd EXCEPT ![s].frames = @ - 1]
    /\ ReaderOnly

\* ff_player_seek -> stream_seek: a request is taken unless one is pending
RdHostSeek ==
    /\ rd.pc # "exited"
    /\ ~rd.seek_req
    /\ rd.nseek < MaxRestarts
    /\ rd' = [rd EXCEPT !.seek_req = TRUE, !.nseek = @ + 1]
    /\ ReaderOnly

\* ff_player_toggle_pause
RdHostPause ==
    /\ rd.pc # "exited"
    /\ rd' = [rd EXCEPT !.paused = ~@]
    /\ ReaderOnly

\* the read thread's own steps
RdStep ==
    \/ RdSeek
    \/ RdAttach
    \/ RdFull
    \/ RdWait
    \/ RdPolicy
    \/ RdReadFails
    \/ RdRead

\* the loop starts for a file with an audio stream, a video stream or both,
\* the video stream an attached picture or not, looping or not
InitRead ==
    /\ InitPQ
    /\ InitPicture
    /\ InitControl
    /\ cy = NoCycle
    /\ sk = NoRequest
    /\ tp = NoToggle
    /\ \E loop \in BOOLEAN, audio_open \in BOOLEAN, video_open \in BOOLEAN,
          attached_pic \in BOOLEAN :
         /\ audio_open \/ video_open
         /\ attached_pic => video_open
         /\ rd = ReaderAt(loop, audio_open, video_open, attached_pic, 0, Packet)

NextRead ==
    \/ RdStep
    \/ RdDecode
    \/ RdConsume
    \/ RdHostSeek
    \/ RdHostPause

SpecRead == InitRead /\ [][NextRead]_vars

\* the loop of a looping player with both streams; the read thread keeps
\* running: it is a thread of its own and its waits are timed
InitLoop ==
    /\ InitPQ
    /\ InitPicture
    /\ InitControl
    /\ cy = NoCycle
    /\ sk = NoRequest
    /\ tp = NoToggle
    /\ rd = ReaderAt(TRUE, TRUE, TRUE, FALSE, 0, Packet)

FairLoop == InitLoop /\ [][NextRead]_vars /\ WF_vars(RdStep)

(***************************************************************************)
(* The loop's backpressure test, from the states it may find the queues    *)
(* in: empty, or holding 1, MIN_FRAMES or MIN_FRAMES + 1 packets, which    *)
(* are short, of a tenth of a second, of unknown duration, or huge.        *)
(***************************************************************************)
InitBackpressure ==
    /\ InitPQ
    /\ InitPicture
    /\ InitControl
    /\ cy = NoCycle
    /\ sk = NoRequest
    /\ tp = NoToggle
    /\ \E audio_open \in BOOLEAN, video_open \in BOOLEAN, attached_pic \in BOOLEAN,
          fill \in {0, 1, MIN_FRAMES, MIN_FRAMES + 1},
          packet \in {Packet, PlainPacket, LongPacket, HugePacket},
          seek_req \in BOOLEAN, queue_attachments_req \in BOOLEAN :
         /\ audio_open \/ video_open
         /\ attached_pic => video_open
         /\ rd = [ReaderAt(FALSE, audio_open, video_open, attached_pic, fill, packet)
                    EXCEPT !.seek_req = seek_req,
                           !.queue_attachments_req = queue_attachments_req]

NextBackpressure == RdStep

SpecBackpressure == InitBackpressure /\ [][NextBackpressure]_vars

(***************************************************************************)
(* Properties of the clocks                                                *)
(***************************************************************************)
\* ff_clock_get on the named clock now
ClockGet(name) == ff_clock_get_at(clk[name], QueueSerial(clk, name), clk.time)

\* the named clock's serial differs from the one its queue_serial refers to
Stale(name) == clk[name].serial # QueueSerial(clk, name)

\* C26 as stated: ff_clock_get returns NaN if and only if the clock is stale
\* or has never been set since init.  Violated: the seek by bytes sets the
\* external clock to NaN, and stream_toggle_pause sets a clock to what
\* ff_clock_get returned.
C26_Original_NaNIffStaleOrNeverSet ==
    \A name \in ClockNames :
        isnan(ClockGet(name)) <=> (Stale(name) \/ ~clk[name].was_set)

\* C26: for each of the three clocks ff_clock_get returns NaN if and only if
\* the clock's serial differs from the serial its queue_serial refers to or
\* the pts last stored in it is NaN; a clock never set since init holds NaN.
C26_NaNIffStaleOrNaNStored ==
    \A name \in ClockNames :
        /\ isnan(ClockGet(name)) <=> (Stale(name) \/ isnan(clk[name].pts))
        /\ ~clk[name].was_set => isnan(clk[name].pts)

\* a clock that is live, was set, and runs from a time in the past gives a
\* number, while another one is stale after a flush
C26_Witness ==
    /\ clk.video.was_set /\ ~Stale("video") /\ ~clk.video.paused
    /\ clk.video.last_updated < clk.time
    /\ ~isnan(ClockGet("video"))
    /\ clk.audio.was_set /\ Stale("audio") /\ ~isnan(clk.audio.pts)
    /\ isnan(ClockGet("audio"))

\* C27: ff_clock_set_speed followed at the same instant by ff_clock_get gives
\* what ff_clock_get gave just before, whenever the clock was not stale,
\* whether paused or not and whatever its speed and last_updated were.
C27_SetSpeedKeepsValue ==
    (clk.set_speed.calls > 0 /\ clk.set_speed.same_instant)
        => clk.set_speed.after = clk.set_speed.before

\* the speed of a running clock that was set in the past and gives a number
\* has been changed at one instant
C27_Witness ==
    /\ clk.set_speed.calls > 0
    /\ clk.set_speed.same_instant
    /\ ~isnan(clk.set_speed.before)
    /\ ~clk.external.paused
    /\ clk.external.speed # SpeedOne
    /\ clk.set_speed.before # clk.external.pts_drift

\* the last check_external_clock_speed found an open stream with a packet
\* count below the minimum
CountBelowMin ==
    \/ clk.check.video_open /\ clk.check.video_count < EXTERNAL_CLOCK_MIN_FRAMES
    \/ clk.check.audio_open /\ clk.check.audio_count < EXTERNAL_CLOCK_MIN_FRAMES

\* C28: from speed 1.0 on, after any calls of check_external_clock_speed the
\* external clock's speed is within [0.900, 1.010] and a call changes it by
\* at most one STEP; a call that finds an open stream's packet count below
\* the minimum lowers the speed by one STEP, but not below 0.900.
C28_SpeedBoundedAndStepped ==
    /\ clk.external.speed >= EXTERNAL_CLOCK_SPEED_MIN
    /\ clk.external.speed <= EXTERNAL_CLOCK_SPEED_MAX
    /\ clk.check.calls > 0 =>
         /\ fabs(clk.external.speed - clk.check.speed) <= EXTERNAL_CLOCK_SPEED_STEP
         /\ CountBelowMin =>
              clk.external.speed =
                  FFMAX(EXTERNAL_CLOCK_SPEED_MIN,
                        clk.check.speed - EXTERNAL_CLOCK_SPEED_STEP)

\* a call found a packet count below the minimum with the speed at 0.900
\* already, and left it there
C28_Witness ==
    /\ clk.check.calls > 0
    /\ CountBelowMin
    /\ clk.check.speed = EXTERNAL_CLOCK_SPEED_MIN
    /\ clk.external.speed = EXTERNAL_CLOCK_SPEED_MIN

(***************************************************************************)
(* Properties of the packet queue.                                         *)
(***************************************************************************)
RECURSIVE SumOf(_, _)
SumOf(f(_), seq) ==
    IF seq = <<>> THEN 0 ELSE f(Head(seq)) + SumOf(f, Tail(seq))

EntrySize(packet) == packet.base.size + SizeofPacket
EntryDuration(packet) == packet.base.duration

\* the queued packets as put and get log them: identity and stamped serial
Queued == [i \in 1 .. Len(pq.packets) |->
             [id |-> pq.packets[i].base.id, serial |-> pq.packets[i].serial]]

\* C1: when ff_packet_queue_flush returns, the queue holds no packets,
\* packet_count, size and duration are 0, and serial is exactly one more
\* than flush found it, whatever the queue held and aborted or not.
C1_FlushEmptiesQueue ==
    last.op = "flush" =>
       /\ pq.packets = <<>>
       /\ pq.packet_count = 0
       /\ pq.size = 0
       /\ pq.duration = 0
       /\ pq.serial = last.serial + 1

\* a flush of an aborted queue that held two packets or more
C1_Witness ==
    /\ last.op = "flush"
    /\ last.packet_count >= 2
    /\ pq.aborted

\* C2: every queued packet carries a serial that is at most the queue's.
C2_PacketSerialAtMostQueueSerial ==
    \A i \in 1 .. Len(pq.packets) : pq.packets[i].serial <= pq.serial

\* a packet put before a restart is still queued, behind it one put after
C2_Witness ==
    /\ Len(pq.packets) >= 2
    /\ pq.packets[1].serial < pq.serial
    /\ pq.packets[Len(pq.packets)].serial = pq.serial

\* C3: serial never decreases: flush and start add exactly 1 to it; put,
\* put_nullpacket, get and abort leave it as they found it.
C3_SerialMonotonic ==
    /\ last.op \in {"flush", "start"} => pq.serial = last.serial + 1
    /\ last.op \in {"put", "put_nullpacket", "get", "abort"} => pq.serial = last.serial
    /\ pq.serial >= last.serial

\* a start of a queue that was started and flushed before
C3_Witness ==
    /\ last.op = "start"
    /\ last.serial >= 2
    /\ pq.serial = last.serial + 1

\* C4: size is the sum over the queued packets of byte size plus the
\* per-entry overhead, packet_count is their number and duration the sum
\* of their durations.
C4_CountersMatchContents ==
    /\ pq.size = SumOf(EntrySize, pq.packets)
    /\ pq.packet_count = Len(pq.packets)
    /\ pq.duration = SumOf(EntryDuration, pq.packets)

\* packets of both kinds are queued after a get took one out
C4_Witness ==
    /\ got # <<>>
    /\ Len(pq.packets) >= 2
    /\ pq.duration > 0
    /\ pq.size > pq.packet_count * SizeofPacket
    /\ \E i \in 1 .. Len(pq.packets) : pq.packets[i].base.size = 0

\* C5: while the queue is aborted every ff_packet_queue_get returns -1,
\* and no thread that was blocked in a get is left blocked in cnd_wait.
C5_AbortReleasesEveryGet ==
    /\ \A t \in Getters : gret[t].aborted => gret[t].ret = -1
    /\ pq.aborted => \A t \in Getters : gpc[t] # "wait"

\* C6: the packets get has returned, followed by those still queued, are
\* the packets accepted since the last flush, in put order, each with the
\* serial the queue had when it was put.
C6_GetInPutOrder ==
    got \o Queued = accepted

\* two packets put under different serials were returned, a third is queued
C6_Witness ==
    /\ Len(got) >= 2
    /\ got[1].serial < got[2].serial
    /\ pq.packets # <<>>

(***************************************************************************)
(* Properties of the frame queue.                                          *)
(***************************************************************************)
\* C7: with one writer and one reader, 0 <= size <= max_size.
C7_SizeWithinBounds ==
    /\ 0 <= fq.size
    /\ fq.size <= fq.max_size

\* the writer, blocked on a full queue, has been released by an abort
C7_Witness ==
    /\ fq.size = fq.max_size
    /\ fpc["writer"] = "check"
    /\ pq.aborted

\* C8: ff_frame_queue_peek_writable hands out a slot only of a queue that
\* is not full.
C8_WritableSlotOnlyIfNotFull ==
    fpc["writer"] = "fill" => fq.size < fq.max_size

\* C9: rindex_shown is 0 or 1 and at most size, so that
\* 0 <= frames_remaining <= size.
C9_FramesRemainingWithinSize ==
    /\ fq.rindex_shown \in {0, 1}
    /\ fq.rindex_shown <= fq.size
    /\ 0 <= ff_frame_queue_get_frames_remaining(fq)
    /\ ff_frame_queue_get_frames_remaining(fq) <= fq.size

\* C10: with keep_last the first call of ff_frame_queue_next only sets
\* rindex_shown to 1; every other call releases the frame at rindex,
\* advances rindex modulo max_size and then decrements size, and leaves
\* rindex_shown as it was (1 with keep_last).
C10_NextKeepsLastOnce ==
    [][/\ (fpc["reader"] = "next" /\ fpc'["reader"] # "next") =>
            IF fq.keep_last /\ nnext = 0
            THEN /\ fq' = [fq EXCEPT !.rindex_shown = 1]
                 /\ fpc'["reader"] = "idle"
            ELSE /\ fq' = [fq EXCEPT !.frames[fq.rindex] = FALSE,
                                      !.rindex = (fq.rindex + 1) % fq.max_size]
                 /\ fq.keep_last => fq.rindex_shown = 1
                 /\ fpc'["reader"] = "next_size"
       /\ (fpc["reader"] = "next_size" /\ fpc'["reader"] # "next_size") =>
            fq' = [fq EXCEPT !.size = fq.size - 1]
      ]_vars

\* with keep_last, a second call of next has advanced rindex
C10_Witness ==
    /\ fq.keep_last
    /\ nnext = 2
    /\ fpc["reader"] = "idle"
    /\ fq.rindex = 1
    /\ fq.rindex_shown = 1

(***************************************************************************)
(* Properties of a stream.                                                 *)
(***************************************************************************)
\* ff_decoder_abort has aborted the packet queue and signalled the frame
\* queue
Signalled == thread = "running" /\ cl.pc \in {"join", "flush", "done"}

\* C11: once the packet queue is aborted and the frame queue signalled, no
\* thread is left in the cnd_wait of ff_frame_queue_peek_writable or
\* ff_frame_queue_peek_readable, none enters it, every such call returns
\* NULL, and a thread that was woken does return.
C11_AbortWakesPeekers ==
    /\ [](Signalled => \A t \in DOMAIN fpc : fpc[t] # "wait")
    /\ [][Signalled =>
            /\ (fpc["writer"] = "check" /\ fpc'["writer"] # "check") =>
                  (fpc'["writer"] = "idle" /\ wret' = NULL)
            /\ (fpc["reader"] = "check" /\ fpc'["reader"] # "check") =>
                  (fpc'["reader"] = "idle" /\ con'.pc = "idle" /\ con'.ret = NoHandout)
         ]_vars
    /\ \A t \in {"writer", "reader"} :
         (Signalled /\ fpc[t] \in {"ready", "check"}) ~> (fpc[t] = "idle")

\* the writer, blocked on a full queue, has been woken by ff_decoder_abort
C11_Witness ==
    /\ Signalled
    /\ fpc["writer"] = "ready"
    /\ fq.size = fq.max_size
    /\ pq.aborted

\* C12: a frame that has left the decoder carries the decoder's
\* packet_serial, and that was the packet queue's serial when
\* ff_decoder_decode returned it; so it is for the frame queued last.
C12_FrameSerialLiveAtExit ==
    /\ dec.pc \in {"out", "queue"} => dec.exit = dec.packet_serial
    /\ hist.cur.serial = hist.cur.exit

\* C13: the frame ff_player_acquire_video_frame hands out for display has
\* the serial the video packet queue had during the call: it is not older
\* than the serial found when the call began.
C13_NoStaleFrameDisplayed ==
    (~pull /\ con.ret # NoHandout) => con.ret.serial >= con.called

\* C14: ff_player_acquire_audio_buf goes back for another frame only past a
\* frame of another serial than the packet queue's; the frame whose samples
\* it returns had the packet queue's serial when compared, and
\* audio_clock_serial is that serial.
C14_AudioReturnsLiveFrame ==
    /\ []((pull /\ con.ret # NoHandout) =>
            /\ con.ret.serial = con.ret.live
            /\ con.audio_clock_serial = con.ret.serial)
    /\ [][(pull /\ con.pc = "next" /\ con'.pc = "peek") =>
            fstamp[con.frame] # ff_packet_queue_get_serial(pq)]_vars

\* after a seek the call discarded a frame of the old serial and returned
\* the samples of a frame of the new one
C14_Witness ==
    /\ pull
    /\ con.dropped
    /\ con.ret # NoHandout
    /\ con.ret.serial >= 2
    /\ con.audio_clock_serial = con.ret.serial

\* C15: of two frames queued one after the other the second's serial is not
\* the smaller, and where it is the greater the packet queue was flushed
\* between the moments the two left the decoder.
C15_FrameSerialsFollowFlushes ==
    hist.prev # NoFrame =>
       /\ hist.cur.serial >= hist.prev.serial
       /\ hist.cur.serial > hist.prev.serial => hist.cur.exit > hist.prev.exit

\* C16: ff_player_close, once it has set abort_request, returns.
C16_CloseReturns ==
    (cl.pc = "join_read") ~> (cl.pc = "done")

\* ff_player_close waits for a decoder that the abort found blocked in
\* ff_packet_queue_get on an empty queue
C16_Witness ==
    /\ cl.pc = "join"
    /\ dec.pc = "get_ready"
    /\ pq.packets = <<>>
    /\ pq.aborted

\* C17: ff_player_close joins no thread before it has aborted the packet
\* queue and signalled the frame queue.
C17_AbortsBeforeJoins ==
    (thread = "running" /\ cl.pc \notin {"idle", "join_read"}) =>
       cl.pc \in {"join", "flush", "done"}

\* C17, as the code has it: abort_request is set, the read thread is joined,
\* and only then is the stream closed: packet queue aborted, frame queue
\* signalled, decoder thread joined, packet queue flushed.
C17_JoinsReaderBeforeAbort ==
    /\ [](/\ cl.pc # "idle" => cl.abort_request
          /\ cl.pc \in {"abort", "signal", "join", "flush", "done"} =>
                cl.read_thread = "exited"
          /\ (thread = "running" /\ cl.pc \in {"idle", "join_read", "abort"}) =>
                cl.found = -1
          /\ (thread = "running" /\ cl.pc \in {"signal", "join", "flush", "done"}) =>
                pq.aborted
          /\ (thread = "running" /\ cl.pc \in {"flush", "done"}) => dec.pc = "exit")
    /\ [][cl'.pc # cl.pc =>
            <<cl.pc, cl'.pc>> \in {<<"idle", "join_read">>, <<"join_read", "abort">>,
                                   <<"join_read", "done">>, <<"abort", "signal">>,
                                   <<"signal", "join">>, <<"join", "flush">>,
                                   <<"flush", "done">>}]_vars

\* the read thread has been joined while the packet queue is not aborted
\* and the decoder thread is blocked on the full frame queue
C17_Witness ==
    /\ cl.pc = "abort"
    /\ cl.read_thread = "exited"
    /\ ~pq.aborted
    /\ fpc["writer"] = "wait"

\* C18: ff_decoder_abort flushes only after the join; when it has returned
\* the decoder thread has exited, the packet queue is empty with zero
\* counters and aborted, and its serial is one more than the call found.
C18_DecoderAbort ==
    /\ (thread = "running" /\ cl.pc \in {"signal", "join", "flush"}) =>
          (pq.aborted /\ pq.serial = cl.found)
    /\ (thread = "running" /\ cl.pc = "flush") => dec.pc = "exit"
    /\ (thread = "running" /\ cl.pc = "done") =>
          /\ dec.pc = "exit"
          /\ pq.packets = <<>>
          /\ pq.packet_count = 0
          /\ pq.size = 0
          /\ pq.duration = 0
          /\ pq.aborted
          /\ pq.serial = cl.found + 1

\* ff_decoder_abort has returned; its flush emptied a queue that held every
\* packet put, the decoder having taken none
C18_Witness ==
    /\ thread = "running"
    /\ cl.pc = "done"
    /\ nput = MaxPackets
    /\ dec.packet_serial = -1
    /\ pq.serial = cl.found + 1

(***************************************************************************)
(* Properties of seeking.                                                  *)
(***************************************************************************)
\* the read thread has applied a seek
SeekApplied == cl.seek # NoSeek

C20_SeekWhilePausedStepsOneFrame ==
    (cl.stepping /\ cl.seek.ok) =>
       /\ Len(cl.shown) <= 1
       /\ Len(cl.shown) = 1 => cl.shown[1] = cl.seek.video + 1
       /\ (Len(cl.shown) = 1 /\ con.pc = "idle") => cl.paused

(***************************************************************************)
(* Properties of the end of the stream                                     *)
(***************************************************************************)
\* the decoder has reported the end of the stream at the serial it is at
Finished == dec.finished = dec.packet_serial /\ dec.finished > 0

\* C22 as stated: once finished is set, further calls of ff_decoder_decode
\* return without blocking.  Violated: the next call waits in
\* ff_packet_queue_get.
C22_Original_FinishedNeverBlocks ==
    Finished => dec.pc # "get_wait"

\* C22: when the null packet has been sent and the codec reports the end of
\* the stream, ff_decoder_decode sets finished to packet_serial and returns
\* 0; a further call gets no frame from the flushed codec and goes on to
\* ff_packet_queue_get, where it waits while the queue is empty and not
\* aborted.
C22_FinishedThenWaitsForPacket ==
    [][ /\ (/\ dec.pc = "recv" /\ dec' # dec
            /\ dec.eof /\ dec.codec = 0 /\ ~ff_packet_queue_get_aborted(pq))
           => (dec'.pc = "top" /\ dec'.finished = dec.packet_serial /\ ~dec'.eof)
        /\ (/\ dec.pc = "recv" /\ dec' # dec
            /\ Finished /\ ~dec.eof /\ dec.codec = 0
            /\ ~ff_packet_queue_get_aborted(pq))
           => dec'.pc = "need"
        /\ (/\ dec.pc \in {"get", "get_ready"} /\ dec' # dec
            /\ Finished /\ pq.packet_count = 0 /\ ~ff_packet_queue_get_aborted(pq))
           => dec'.pc = "get_wait" ]_vars

\* the decoder has reported the end of the stream and the next call waits
\* for a packet on the empty queue
C22_Witness ==
    /\ Finished
    /\ dec.pc = "get_wait"
    /\ pq.packet_count = 0
    /\ ~ff_packet_queue_get_aborted(pq)

C25_Original_FullIterationQueuesNothing ==
    rd.iter.full => (~rd.iter.read /\ rd.iter.put = 0)

\* C25: in an iteration whose backpressure test is true the read thread
\* does not call av_read_frame and queues nothing but what the handling of
\* queue_attachments_req queued before the test; it waits and the loop
\* starts again at its top.
C25_FullIterationWaits ==
    /\ [](rd.iter.full =>
            /\ rd.pc = "wait"
            /\ ~rd.iter.read
            /\ rd.iter.put = rd.iter.attached)
    /\ [][ rd.iter.full => (rd'.pc = "seek" /\ rd'.iter = NoIteration) ]_vars

\* the test is true because both queues hold more than MIN_FRAMES packets
\* and less than MAX_QUEUE_SIZE bytes
C25_Witness ==
    /\ rd.iter.full
    /\ rd.audio.open /\ rd.video.open /\ ~rd.attached_pic
    /\ rd.audio.queue.packet_count > MIN_FRAMES
    /\ rd.video.queue.packet_count > MIN_FRAMES
    /\ rd.audio.queue.size + rd.video.queue.size <= MAX_QUEUE_SIZE

(***************************************************************************)
(* ff_player_cycle_channel on a container of up to MaxStreams audio and    *)
(* video streams, with or without a program around the video stream, for   *)
(* every stream the player may have open or have opened last.              *)
(***************************************************************************)
\* the elements of a set of stream indexes in ascending order
RECURSIVE Ascending(_)
Ascending(set) ==
    IF set = {} THEN <<>>
    ELSE LET least == CHOOSE i \in set : \A j \in set : i <= j
         IN  <<least>> \o Ascending(set \ {least})

\* stream_index >= stream_count, an int against an unsigned int: a negative
\* int converts to a number above every count
UnsignedGE(i, count) == i < 0 \/ i >= count

\* the indexes of the container's streams of a media type
StreamsOf(streams, media_type) ==
    {i \in 0..(Len(streams) - 1) : streams[i + 1] = media_type}

\* the position of a stream in program->stream_index, or the length of the
\* table when it is not in it (lines 1840-1844)
RECURSIVE FindInProgram(_, _, _)
FindInProgram(program, stream_index, start_index) ==
    IF start_index >= Len(program) THEN start_index
    ELSE IF program[start_index + 1] = stream_index THEN start_index
    ELSE FindInProgram(program, stream_index, start_index + 1)

\* ff_player_cycle_channel, lines 1815-1851: the locals before the loop;
\* another media type than video and audio returns at once
cycle_enter(c, media_type) ==
    IF media_type \notin {"video", "audio"}
    THEN [c EXCEPT !.pc = "returned", !.media_type = media_type]
    ELSE LET start_index == IF media_type = "video" THEN c.last_video_stream_index
                            ELSE c.last_audio_stream_index
             old_index == IF media_type = "video" THEN c.video_stream_index
                          ELSE c.audio_stream_index
             in_program == media_type # "video" /\ c.video_stream_index # -1
                           /\ c.has_program
             found == FindInProgram(c.program, start_index, 0)
         IN  [c EXCEPT
                !.pc = "loop", !.media_type = media_type, !.old_index = old_index,
                !.in_program = in_program,
                !.stream_count = IF in_program THEN Len(c.program)
                                 ELSE Len(c.streams),
                !.start_index = IF ~in_program THEN start_index
                                ELSE IF found = Len(c.program) THEN -1 ELSE found,
                !.stream_index = IF ~in_program THEN start_index
                                 ELSE IF found = Len(c.program) THEN -1 ELSE found]

\* ff_player_cycle_channel, lines 1852-1881: one turn of the loop. It
\* returns when the index passes the end with no start index or comes back
\* to the start index; a stream of the media type is looked at and the loop
\* goes on. No statement leaves the loop for lines 1882-1894, which would
\* close the old stream and open the one found
cycle_iter(c) ==
    LET next_index == c.stream_index + 1
        over == UnsignedGE(next_index, c.stream_count)
        stream_index == IF over THEN 0 ELSE next_index
    IN  IF over /\ c.start_index = -1 THEN [c EXCEPT !.pc = "returned"]
        ELSE IF stream_index = c.start_index
        THEN [c EXCEPT !.pc = "returned", !.stream_index = stream_index]
        ELSE LET stream_index_pick == IF c.in_program
                                      THEN c.program[stream_index + 1]
                                      ELSE stream_index
             IN  [c EXCEPT
                    !.stream_index = stream_index,
                    !.matched = IF c.streams[stream_index_pick + 1] = c.media_type
                                THEN Append(@, stream_index_pick) ELSE @]

\* nothing but the call of ff_player_cycle_channel moves
CycleOnly ==
    /\ UNCHANGED <<pq, last, dec, fstamp, con, cl, hist, clk, rd, sk, tp>>
    /\ UNCHANGED pqvars
    /\ UNCHANGED fqvars

\* the host calls ff_player_cycle_channel
CyCall ==
    /\ cy.pc = "idle"
    /\ \E media_type \in {"video", "audio", "subtitle"} :
         cy' = cycle_enter(cy, media_type)
    /\ CycleOnly

\* the call goes once through its loop
CyIter ==
    /\ cy.pc = "loop"
    /\ cy' = cycle_iter(cy)
    /\ CycleOnly

\* the player of any container: each stream index the player holds is -1 or
\* a stream of its type, the open stream is the one opened last, and a
\* program has the video stream among its streams
InitCycle ==
    /\ InitPQ
    /\ InitPicture
    /\ InitControl
    /\ rd = ReaderAt(FALSE, TRUE, TRUE, FALSE, 0, Packet)
    /\ sk = NoRequest
    /\ tp = NoToggle
    /\ \E n \in 0..MaxStreams :
       \E streams \in [1..n -> {"audio", "video"}] :
       \E last_video \in StreamsOf(streams, "video") \cup {-1},
          last_audio \in StreamsOf(streams, "audio") \cup {-1},
          video_open \in BOOLEAN, audio_open \in BOOLEAN,
          members \in SUBSET (0..(n - 1)) :
         /\ video_open => last_video # -1
         /\ audio_open => last_audio # -1
         /\ members # {} => (video_open /\ last_video \in members)
         /\ cy = [NoCycle EXCEPT
                    !.streams = streams,
                    !.has_program = members # {},
                    !.program = Ascending(members),
                    !.last_video_stream_index = last_video,
                    !.last_audio_stream_index = last_audio,
                    !.video_stream_index = IF video_open THEN last_video ELSE -1,
                    !.audio_stream_index = IF audio_open THEN last_audio ELSE -1]

NextCycle ==
    \/ CyCall
    \/ CyIter

SpecCycle == InitCycle /\ [][NextCycle]_vars

\* the host's thread keeps running
FairCycle == SpecCycle /\ WF_vars(CyIter)

(***************************************************************************)
(* Properties of the video refresh of a paused or stepping player.         *)
(***************************************************************************)
\* the call in progress, or the last one made, found the player paused and
\* force_refresh false
PausedCall == con.entry.made /\ con.entry.paused /\ ~con.entry.force_refresh

C30_StepShowsOneFrameThenPauses ==
    /\ [][HStep => (~cl'.paused /\ cl'.step)]_vars
    /\ [][HTogglePause => ~cl'.step]_vars
    /\ [](cl.stepped = 0 => (~cl.paused /\ cl.step))
    /\ [](cl.stepped >= 1 => (cl.stepped = 1 /\ cl.paused /\ cl.step))
    /\ [][(cl.stepped = 0 /\ cl'.stepped = 1) =>
            /\ con.advanced = 1
            /\ ~con.dropped
            /\ con'.force_refresh
            /\ cl'.paused]_vars
    /\ (cl.stepped = 0 /\ ff_frame_queue_get_frames_remaining(fq) > 0) ~> cl.paused

\* after a step the refresh has shown one frame, handed it out and left the
\* player paused with step still set
C30_Witness ==
    /\ cl.stepped = 1
    /\ cl.paused
    /\ cl.step
    /\ con.pc = "idle"
    /\ con.advanced = 1
    /\ con.ret # NoHandout
    /\ nnext >= 2

(***************************************************************************)
(* Properties of ff_player_cycle_channel.                                  *)
(***************************************************************************)
\* every call of ff_player_cycle_channel returns
CallTerminates == (cy.pc = "loop") ~> (cy.pc = "returned")

\* a call has returned without closing or opening a stream
NothingSwitched ==
    cy.pc = "returned" => (cy.closed = -1 /\ cy.opened = -1)

\* C31 as stated: when ff_player_cycle_channel has met a stream of the media
\* type other than the start one, it has closed the old stream and opened
\* the first such stream by the time it returns.
C31_SwitchesToNextMatch ==
    (cy.pc = "returned" /\ cy.matched # <<>>) =>
        /\ cy.closed = cy.old_index
        /\ cy.opened = cy.matched[1]

CountAtOrBelowMin ==
    \/ clk.check.video_open /\ clk.check.video_count <= EXTERNAL_CLOCK_MIN_FRAMES
    \/ clk.check.audio_open /\ clk.check.audio_count <= EXTERNAL_CLOCK_MIN_FRAMES

\* the last call found every open stream with more than
\* EXTERNAL_CLOCK_MAX_FRAMES packets
CountAboveMax ==
    /\ clk.check.video_open => clk.check.video_count > EXTERNAL_CLOCK_MAX_FRAMES
    /\ clk.check.audio_open => clk.check.audio_count > EXTERNAL_CLOCK_MAX_FRAMES

\* the speed the last call found, one STEP slower, faster, or nearer to 1.0
Slower == FFMAX(EXTERNAL_CLOCK_SPEED_MIN, clk.check.speed - EXTERNAL_CLOCK_SPEED_STEP)
Faster == FFMIN(EXTERNAL_CLOCK_SPEED_MAX, clk.check.speed + EXTERNAL_CLOCK_SPEED_STEP)
TowardOne ==
    IF clk.check.speed < SpeedOne THEN clk.check.speed + EXTERNAL_CLOCK_SPEED_STEP
    ELSE IF clk.check.speed > SpeedOne THEN clk.check.speed - EXTERNAL_CLOCK_SPEED_STEP
    ELSE clk.check.speed

\* C33 as stated: check_external_clock_speed slows the external clock
\* exactly when an open stream's packet count is below
\* EXTERNAL_CLOCK_MIN_FRAMES, speeds it up exactly when that is not so and
\* every open stream's count is above EXTERNAL_CLOCK_MAX_FRAMES, and
\* otherwise moves the speed one STEP toward 1.0.
C33_Original_SlowsBelowMin ==
    clk.check.calls > 0 =>
        clk.external.speed =
            IF CountBelowMin THEN Slower
            ELSE IF CountAboveMax THEN Faster
            ELSE TowardOne

\* C33 amended: check_external_clock_speed slows the external clock by one
\* STEP, not below 0.900, exactly when an open stream's packet count is
\* EXTERNAL_CLOCK_MIN_FRAMES or less, speeds it up by one STEP, not above
\* 1.010, exactly when that is not so and every open stream's count is above
\* EXTERNAL_CLOCK_MAX_FRAMES, and otherwise moves the speed one STEP toward
\* 1.0, leaving a speed of 1.0 as it is.
C33_SlowsAtOrBelowMin ==
    clk.check.calls > 0 =>
        clk.external.speed =
            IF CountAtOrBelowMin THEN Slower
            ELSE IF CountAboveMax THEN Faster
            ELSE TowardOne

\* a call at speed 1.0 found an open stream with exactly
\* EXTERNAL_CLOCK_MIN_FRAMES packets, none with fewer, and slowed the clock
C33_Witness ==
    /\ clk.check.calls > 0
    /\ CountAtOrBelowMin
    /\ ~CountBelowMin
    /\ clk.check.speed = SpeedOne
    /\ clk.external.speed = SpeedOne - EXTERNAL_CLOCK_SPEED_STEP

(***************************************************************************)
(* Properties of the drop of late frames.                                  *)
(***************************************************************************)
\* C34: the video refresh passes a frame of the packet queue's serial
\* without showing it only when another frame is queued behind it, its time
\* is over, the master clock is not the video clock and the player is not
\* stepping; a refresh that finds the player stepping or the video clock as
\* master never does.
C34_LateDropOnlyWhenAllowed ==
    /\ [][(con.pc = "fresh" /\ con'.pc = "drop") =>
            /\ ff_frame_queue_get_frames_remaining(fq) > 1
            /\ cl.master # "video"
            /\ ~cl.step
            /\ ~cl.paused
            /\ con'.timer_set]_vars
    /\ [][(con.pc = "fresh" /\ (cl.step \/ cl.master = "video")) =>
            con'.pc # "drop"]_vars

\* with the audio clock as master one call has dropped a frame as late and
\* shown the next one
C34_Witness ==
    /\ cl.master = "audio"
    /\ con.pc = "idle"
    /\ con.advanced = 2
    /\ ~con.dropped
    /\ con.ret # NoHandout
    /\ ~cl.step

(***************************************************************************)
(* Properties of the display phase of the video refresh.                   *)
(***************************************************************************)
\* C35: the display phase of ff_player_acquire_video_frame returns the frame
\* in the slot at rindex, leaving force_refresh set, exactly when it finds
\* force_refresh set and rindex_shown = 1; in every other case it clears
\* force_refresh and returns NULL.
C35_DisplayReturnsLastShown ==
    /\ [](fq.rindex_shown \in {0, 1})
    /\ [][(con.pc = "display" /\ con'.pc = "idle") =>
            IF con.force_refresh /\ fq.rindex_shown = 1
            THEN /\ con'.ret # NoHandout
                 /\ con'.ret.slot = fq.rindex
                 /\ con'.ret.serial = fstamp[fq.rindex]
                 /\ con'.force_refresh
            ELSE /\ con'.ret = NoHandout
                 /\ ~con'.force_refresh]_vars

\* a call found force_refresh set by the host before any frame was shown,
\* returned NULL and cleared it
C35_Witness ==
    /\ con.pc = "idle"
    /\ con.entry.made
    /\ con.entry.force_refresh
    /\ fq.rindex_shown = 0
    /\ con.ret = NoHandout
    /\ ~con.force_refresh

(***************************************************************************)
(* The seek request: stream_seek, called by the host thread through        *)
(* ff_player_seek and ff_player_seek_chapter and by the read thread when   *)
(* it restarts a looping file, and the read thread's seek. No lock is held *)
(* in either; every read and write of a field is a step.                   *)
(***************************************************************************)
MaxCalls == 3

\* the positions and increments the host asks for; the restart of a loop
\* asks for position 0 with increment 0
SeekTargets == {1, 2}
SeekIncrements == {-1, 1}

\* the thread begins stream_seek(player, pos, rel, by_bytes)
stream_seek_call(s, t, pos, rel, by_bytes) ==
    [s EXCEPT ![t] = [pc |-> "test", pos |-> pos, rel |-> rel, by_bytes |-> by_bytes],
              !.calls = @ + 1]

\* one step of thread t inside stream_seek, lines 1132-1140
stream_seek(s, t) ==
    CASE s[t].pc = "test" ->
           [s EXCEPT ![t].pc = IF ~s.seek_req THEN "pos" ELSE "idle"]
      [] s[t].pc = "pos" ->
           [s EXCEPT !.seek_pos = s[t].pos, ![t].pc = "rel"]
      [] s[t].pc = "rel" ->
           [s EXCEPT !.seek_rel = s[t].rel, ![t].pc = "flags_clear"]
      [] s[t].pc = "flags_clear" ->
           [s EXCEPT !.seek_by_bytes = FALSE,
                     ![t].pc = IF s[t].by_bytes THEN "flags_set" ELSE "req"]
      [] s[t].pc = "flags_set" ->
           [s EXCEPT !.seek_by_bytes = TRUE, ![t].pc = "req"]
      [] s[t].pc = "req" ->
           [s EXCEPT !.seek_req = TRUE,
                     !.taken = Append(@, [pos |-> s[t].pos, rel |-> s[t].rel,
                                          by_bytes |-> s[t].by_bytes]),
                     ![t].pc = "idle"]

InStreamSeek(s, t) ==
    s[t].pc \in {"test", "pos", "rel", "flags_clear", "flags_set", "req"}

RequestOnly ==
    /\ UNCHANGED <<pq, last, dec, fstamp, con, cl, hist, clk, rd, cy, tp>>
    /\ UNCHANGED pqvars
    /\ UNCHANGED fqvars

\* ff_player_seek or ff_player_seek_chapter
SkHostSeek ==
    /\ sk.host.pc = "idle"
    /\ sk.calls < MaxCalls
    /\ \E pos \in SeekTargets, rel \in SeekIncrements, by_bytes \in BOOLEAN :
         sk' = stream_seek_call(sk, "host", pos, rel, by_bytes)
    /\ RequestOnly

SkStreamSeek ==
    /\ \E t \in {"host", "reader"} :
         /\ InStreamSeek(sk, t)
         /\ sk' = stream_seek(sk, t)
    /\ RequestOnly

\* read_thread, line 1291
SkTest ==
    /\ sk.reader.pc = "idle"
    /\ sk' = [sk EXCEPT !.reader.pc = IF sk.seek_req THEN "apply_pos" ELSE "policy"]
    /\ RequestOnly

\* read_thread, line 1292
SkReadPos ==
    /\ sk.reader.pc = "apply_pos"
    /\ sk' = [sk EXCEPT !.reader.pos = sk.seek_pos, !.reader.pc = "apply_rel"]
    /\ RequestOnly

\* read_thread, lines 1293-1294
SkReadRel ==
    /\ sk.reader.pc = "apply_rel"
    /\ sk' = [sk EXCEPT !.reader.rel = sk.seek_rel, !.reader.pc = "apply_file"]
    /\ RequestOnly

\* read_thread, line 1296: avformat_seek_file with the target, the bounds
\* made from seek_rel, and seek_flags
SkSeekFile ==
    /\ sk.reader.pc = "apply_file"
    /\ sk' = [sk EXCEPT !.applied = Append(@, [pos |-> sk.reader.pos,
                                               rel |-> sk.reader.rel,
                                               by_bytes |-> sk.seek_by_bytes]),
                        !.reader.pc = "clear"]
    /\ RequestOnly

\* read_thread, line 1312
SkClear ==
    /\ sk.reader.pc = "clear"
    /\ sk' = [sk EXCEPT !.seek_req = FALSE, !.reader.pc = "policy"]
    /\ RequestOnly

\* read_thread, lines 1339-1348: the loop goes on
SkPolicy ==
    /\ sk.reader.pc = "policy"
    /\ sk' = [sk EXCEPT !.reader.pc = "idle"]
    /\ RequestOnly

\* read_thread, lines 1339-1344: playback is complete and opts.loop is set
SkRestart ==
    /\ sk.reader.pc = "policy"
    /\ sk.loop
    /\ sk.calls < MaxCalls
    /\ sk' = stream_seek_call(sk, "reader", 0, 0, FALSE)
    /\ RequestOnly

\* a player with or without opts.loop
InitRequest ==
    /\ InitPQ
    /\ InitPicture
    /\ InitControl
    /\ rd = ReaderAt(FALSE, TRUE, TRUE, FALSE, 0, Packet)
    /\ cy = NoCycle
    /\ \E loop \in BOOLEAN : sk = [NoRequest EXCEPT !.loop = loop]
    /\ tp = NoToggle

NextRequest ==
    \/ SkHostSeek
    \/ SkStreamSeek
    \/ SkTest
    \/ SkReadPos
    \/ SkReadRel
    \/ SkSeekFile
    \/ SkClear
    \/ SkPolicy
    \/ SkRestart

SpecRequest == InitRequest /\ [][NextRequest]_vars

(***************************************************************************)
(* Pause: stream_toggle_pause, called by the host thread through           *)
(* ff_player_toggle_pause, ff_player_step_to_next_frame and the video      *)
(* refresh, and by the read thread when it steps a paused player after a   *)
(* seek. No lock is held; every read and write of a paused flag is a step, *)
(* and the four stores of line 1153 land in any order.                     *)
(***************************************************************************)
MaxToggles == 3

PausedFlags == {"paused", "audio", "video", "external"}

\* the thread begins op: toggle, step or refresh
toggle_call(p, t, op, pc) ==
    [p EXCEPT ![t] = [pc |-> pc, op |-> op, value |-> FALSE, left |-> {}],
              !.calls = @ + 1]

\* ff_player_step_to_next_frame, line 1809
step_test(p, t) ==
    [p EXCEPT ![t].pc = IF p.paused THEN "enter" ELSE "after"]

\* stream_toggle_pause, line 1145
toggle_enter(p, t) ==
    [p EXCEPT ![t].pc = IF p.paused THEN "video" ELSE "read"]

\* stream_toggle_pause, lines 1146-1150; enosys: read_pause_return is
\* AVERROR(ENOSYS)
toggle_video(p, t, enosys) ==
    [p EXCEPT !.video = IF enosys THEN @ ELSE FALSE, ![t].pc = "read"]

\* stream_toggle_pause, line 1153: the value !player->paused
toggle_read(p, t) ==
    [p EXCEPT ![t].value = ~p.paused, ![t].left = PausedFlags, ![t].pc = "write"]

\* stream_toggle_pause, line 1153: one of the four stores; the call returns
\* after the last
toggle_write(p, t, flag) ==
    LET left == p[t].left \ {flag}
        q == [p EXCEPT ![flag] = p[t].value, ![t].left = left]
    IN  IF left = {}
        THEN [q EXCEPT ![t].pc = "after", !.toggles = @ + 1]
        ELSE q

\* ff_player_toggle_pause, line 1793, and ff_player_step_to_next_frame,
\* line 1812; the video refresh does nothing after the call
toggle_after(p, t) ==
    [p EXCEPT !.step = IF p[t].op = "refresh" THEN @ ELSE p[t].op = "step",
              ![t].pc = "idle"]

ToggleOnly ==
    /\ UNCHANGED <<pq, last, dec, fstamp, con, cl, hist, clk, rd, cy, sk>>
    /\ UNCHANGED pqvars
    /\ UNCHANGED fqvars

\* ff_player_toggle_pause
TpHostToggle ==
    /\ tp.host.pc = "idle"
    /\ tp.calls < MaxToggles
    /\ tp' = toggle_call(tp, "host", "toggle", "enter")
    /\ ToggleOnly

\* ff_player_step_to_next_frame called by the host
TpHostStep ==
    /\ tp.host.pc = "idle"
    /\ tp.calls < MaxToggles
    /\ tp' = toggle_call(tp, "host", "step", "test")
    /\ ToggleOnly

\* ff_player_acquire_video_frame, lines 1668-1670, in the host's thread
TpHostRefresh ==
    /\ tp.host.pc = "idle"
    /\ tp.calls < MaxToggles
    /\ tp.step /\ ~tp.paused
    /\ tp' = toggle_call(tp, "host", "refresh", "enter")
    /\ ToggleOnly

\* read_thread, lines 1315-1317, after a seek
TpReaderSeek ==
    /\ tp.reader.pc = "idle"
    /\ tp.calls < MaxToggles
    /\ tp.paused
    /\ tp' = toggle_call(tp, "reader", "step", "test")
    /\ ToggleOnly

TpTest ==
    /\ \E t \in {"host", "reader"} :
         /\ tp[t].pc = "test"
         /\ tp' = step_test(tp, t)
    /\ ToggleOnly

TpEnter ==
    /\ \E t \in {"host", "reader"} :
         /\ tp[t].pc = "enter"
         /\ tp' = toggle_enter(tp, t)
    /\ ToggleOnly

TpVideo ==
    /\ \E t \in {"host", "reader"}, enosys \in BOOLEAN :
         /\ tp[t].pc = "video"
         /\ tp' = toggle_video(tp, t, enosys)
    /\ ToggleOnly

TpRead ==
    /\ \E t \in {"host", "reader"} :
         /\ tp[t].pc = "read"
         /\ tp' = toggle_read(tp, t)
    /\ ToggleOnly

TpWrite ==
    /\ \E t \in {"host", "reader"} :
         /\ tp[t].pc = "write"
         /\ \E flag \in tp[t].left : tp' = toggle_write(tp, t, flag)
    /\ ToggleOnly

TpAfter ==
    /\ \E t \in {"host", "reader"} :
         /\ tp[t].pc = "after"
         /\ tp' = toggle_after(tp, t)
    /\ ToggleOnly

NextToggle ==
    \/ TpHostToggle
    \/ TpHostStep
    \/ TpHostRefresh
    \/ TpReaderSeek
    \/ TpTest
    \/ TpEnter
    \/ TpVideo
    \/ TpRead
    \/ TpWrite
    \/ TpAfter

SpecToggle == Init /\ [][NextToggle]_vars

(***************************************************************************)
(* Properties of the packets the decoder sends to the codec.               *)
(***************************************************************************)
\* C36: the decoder sends a packet to the codec only when the packet's
\* serial is the packet queue's serial, so that no packet queued before a
\* flush reaches the codec after it.
C36_StalePacketNeverSent ==
    [][(dec.pc = "send" /\ dec'.pc = "top") =>
          dec.packet_serial = ff_packet_queue_get_serial(pq)]_vars

(***************************************************************************)
(* Properties of a put on an aborted packet queue.                         *)
(***************************************************************************)
\* C37: ff_packet_queue_put and ff_packet_queue_put_nullpacket on an aborted
\* queue, a queue that was never started included, return a negative
\* result, leave packets, packet_count, size, duration and serial as they
\* were, and release the packet.
C37_PutOnAbortedQueueRejected ==
    [][((PQPut \/ PQPutNull) /\ ff_packet_queue_get_aborted(pq)) =>
          /\ pq' = pq
          /\ last'.ret < 0
          /\ last'.released
          /\ accepted' = accepted]_vars

\* a put was refused by an aborted queue that holds packets
C37_Witness ==
    /\ last.op \in {"put", "put_nullpacket"}
    /\ last.ret = -1
    /\ last.released
    /\ ff_packet_queue_get_aborted(pq)
    /\ pq.packet_count >= 1

\* a put was refused by a queue that was never started
PutBeforeStart ==
    /\ last.op \in {"put", "put_nullpacket"}
    /\ last.ret = -1
    /\ pq.serial = 0

(***************************************************************************)
(* Properties of the frame queue's indexes.                                *)
(***************************************************************************)
\* a % b as C computes it for b > 0: the sign of the result is a's
CRem(a, b) == IF a >= 0 THEN a % b ELSE -((-a) % b)

\* neither ff_frame_queue_push nor ff_frame_queue_next is between its
\* change of an index and its change of size
BetweenOperations ==
    /\ fpc["writer"] # "push_size"
    /\ fpc["reader"] # "next_size"

\* the slots the reader may hold or peek: the kept last frame at rindex once
\* a frame was shown and, while the reader is not inside
\* ff_frame_queue_next, ff_frame_queue_peek's frame while frames remain and
\* ff_frame_queue_peek_next's frame while more than one remains
ReaderSlots ==
    (IF fq.rindex_shown = 1 THEN {fq.rindex} ELSE {})
    \union (IF fpc["reader"] = "next_size" THEN {}
            ELSE {CRem(fq.rindex + fq.rindex_shown + k, fq.max_size) :
                    k \in {j \in {0, 1} : j < ff_frame_queue_get_frames_remaining(fq)}})

WindexFollowsSize ==
    BetweenOperations => fq.windex = CRem(fq.rindex + fq.size, fq.max_size)

WriterSlotApart ==
    fpc["writer"] = "fill" => wret \notin ReaderSlots

\* C38: between operations windex == (rindex + size) % max_size, and the
\* slot the writer fills after a successful peek_writable is none of the
\* slots the reader may hold or peek.
C38_WriterSlotNeverReaders ==
    /\ WindexFollowsSize
    /\ WriterSlotApart

(***************************************************************************)
(* Properties of the seek request.                                         *)
(***************************************************************************)
\* no step writes seek_pos, seek_rel or seek_flags while seek_req is set
PendingUntouched ==
    [][sk.seek_req =>
          /\ sk'.seek_pos = sk.seek_pos
          /\ sk'.seek_rel = sk.seek_rel
          /\ sk'.seek_by_bytes = sk.seek_by_bytes]_vars

\* the requests applied are the requests taken, in their order, each once;
\* the one not yet applied is the pending one
AppliedOnce ==
    /\ Len(sk.applied) <= Len(sk.taken)
    /\ \A i \in 1 .. Len(sk.applied) : sk.applied[i] = sk.taken[i]
    /\ Len(sk.taken) - Len(sk.applied) =
          IF sk.seek_req /\ sk.reader.pc # "clear" THEN 1 ELSE 0

\* C39: a seek issued while seek_req is set is dropped and leaves seek_pos,
\* seek_rel and seek_flags of the pending request as they were, and the
\* read thread applies every pending request exactly once.
C39_OnePendingSeekAppliedOnce ==
    /\ PendingUntouched
    /\ []AppliedOnce

(***************************************************************************)
(* Properties of the paused flags.                                         *)
(***************************************************************************)
\* no thread is inside stream_toggle_pause
NoToggleInProgress ==
    \A t \in {"host", "reader"} : tp[t].pc \notin {"enter", "video", "read", "write"}

PausedFlagsEqual ==
    /\ tp.audio = tp.paused
    /\ tp.video = tp.paused
    /\ tp.external = tp.paused

\* the player, not paused when opened, is paused after an odd number of
\* toggles
EachToggleFlips == tp.paused = (tp.toggles % 2 = 1)

\* C40: whenever no toggle is in progress the four paused flags are equal
\* and every completed toggle has flipped them once, whatever the
\* interleaving of the host's toggles and steps with the read thread's
\* step after a seek.
C40_PausedFlagsAgree ==
    NoToggleInProgress => (PausedFlagsEqual /\ EachToggleFlips)

====
